---------------------------- MODULE Spec2Model ----------------------------
(***************************************************************************)
(* Wurm Online Advanced Shard Analyzer: the parser, the filled-wedge       *)
(* direction resolver, the multiplicity-aware vein solver and the entry    *)
(* list handlers of src/app.js.                                            *)
(*                                                                         *)
(* Representation.  A pasted text is a sequence of lines; a line is a      *)
(* record of what the recognizers of parseLogBlock can find in it.  A tile *)
(* key ("x,y" in the code) is the pair <<x, y>>; a coordinate object is a  *)
(* record [x, y].  A value that may be non-numeric (an input field, a      *)
(* missing max quality) is a record [num, val].  null strings are "".      *)
(***************************************************************************)
EXTENDS Integers, Sequences, FiniteSets, TLC

(***************************************************************************)
(* Bounds of the model.                                                    *)
(***************************************************************************)
MaxEntries == 3
MaxVeinId == 4

(***************************************************************************)
(* Constants / helpers                                                     *)
(***************************************************************************)
DEFAULT_COLOR == "#cfd8dc"

QUALITY_BANDS ==
  << [key |-> "poor",      label |-> "20-29", color |-> "#9aa0a6"],
     [key |-> "normal",    label |-> "40-59", color |-> "#3ddc84"],
     [key |-> "good",      label |-> "60-79", color |-> "#4ea1ff"],
     [key |-> "very_good", label |-> "80-94", color |-> "#b36bff"],
     [key |-> "utmost",    label |-> "95-99", color |-> "#ffb020"] >>

NoBand == [key |-> "", label |-> "", color |-> ""]

BandByKey(k) ==
  QUALITY_BANDS[CHOOSE i \in 1..Len(QUALITY_BANDS) : QUALITY_BANDS[i].key = k]

Num(n) == [num |-> TRUE, val |-> n]
NaN == [num |-> FALSE, val |-> 0]

Max2(a, b) == IF a >= b THEN a ELSE b
Min2(a, b) == IF a <= b THEN a ELSE b
Abs(n) == IF n < 0 THEN -n ELSE n

clamp(n, a, b) == Max2(a, Min2(b, n))

parseIntSafe(v, fallback) == IF v.num THEN v.val ELSE fallback

coordKey(x, y) == <<x, y>>

parseCoordKey(k) == [x |-> k[1], y |-> k[2]]

\* A slip of setIntersect: the union of the two sets.
setIntersectUnion(a, b) == a \cup b

setIntersect(a, b) == {v \in a : v \in b}

qlColorForNumber(n) ==
  IF n >= 95 THEN BandByKey("utmost").color
  ELSE IF n >= 80 THEN BandByKey("very_good").color
  ELSE IF n >= 60 THEN BandByKey("good").color
  ELSE IF n >= 40 THEN BandByKey("normal").color
  ELSE BandByKey("poor").color

\* String.prototype.includes over the vocabulary of quality phrases: the
\* phrases of the vocabulary that occur inside s.
Includes(s, sub) ==
  \/ s = sub
  \/ s = "very good" /\ sub = "good"
  \/ s = "very good quality" /\ sub \in {"good quality", "very good", "good"}
  \/ s = "good quality" /\ sub = "good"
  \/ s = "utmost quality" /\ sub = "utmost"
  \/ s = "normal quality" /\ sub = "normal"
  \/ s = "poor quality" /\ sub = "poor"

bandForAdj(adj) ==
  IF adj = "" THEN NoBand
  ELSE IF Includes(adj, "utmost") THEN BandByKey("utmost")
  ELSE IF Includes(adj, "very good") THEN BandByKey("very_good")
  ELSE IF Includes(adj, "good") THEN BandByKey("good")
  ELSE IF Includes(adj, "normal") THEN BandByKey("normal")
  ELSE IF Includes(adj, "poor") THEN BandByKey("poor")
  ELSE NoBand

\* oreNormalize over the raw ore texts of the model's vocabulary: qualifier
\* words " ore", " vein", " here" are stripped, anything containing "shards"
\* is rejected (null, here ""), an empty rest is null.
\* A slip of oreNormalize: the two tests for "shards" are missing, a filler
\* name is normalized like an ore name.
oreNormalizeKeepShards(raw) ==
  CASE raw = "" -> ""
    [] raw \in {"iron", "iron ore", "Iron Ore", "iron vein"} -> "iron"
    [] raw \in {"copper", "copper ore"} -> "copper"
    [] raw = "42" -> ""
    [] OTHER -> raw

oreNormalize(raw) ==
  CASE raw = "" -> ""
    [] raw \in {"iron", "iron ore", "Iron Ore", "iron vein"} -> "iron"
    [] raw \in {"copper", "copper ore"} -> "copper"
    [] raw \in {"stone shards", "shards", "rock shards"} -> ""
    [] raw = "42" -> ""
    [] OTHER -> raw

(***************************************************************************)
(* Direction parsing.  A phrase is the sequence of its words, parentheses  *)
(* and full stop already removed as by replace(/[().]/g, "").              *)
(***************************************************************************)
NullDir == [type |-> "null", dx |-> 0, dy |-> 0]
Dir(dx, dy) == [type |-> "dir", dx |-> dx, dy |-> dy]

DIR_MAP ==
  [w \in {"north", "south", "east", "west", "northeast", "northwest",
          "southeast", "southwest", "ne", "nw", "se", "sw"} |->
     CASE w = "north" -> Dir(0, 1)
       [] w = "south" -> Dir(0, -1)
       [] w = "east" -> Dir(1, 0)
       [] w = "west" -> Dir(-1, 0)
       [] w \in {"northeast", "ne"} -> Dir(1, 1)
       [] w \in {"northwest", "nw"} -> Dir(-1, 1)
       [] w \in {"southeast", "se"} -> Dir(1, -1)
       [] w \in {"southwest", "sw"} -> Dir(-1, -1)]

Cardinals == {"north", "south", "east", "west"}

\* A slip of parseDirectionPhrase: the sum of the two unit vectors is not
\* clamped.
parseDirectionPhraseNoClamp(p) ==
  IF p = << >> THEN NullDir
  ELSE IF Len(p) = 1 /\ p[1] \in DOMAIN DIR_MAP THEN DIR_MAP[p[1]]
  ELSE IF Len(p) = 3 /\ p[2] = "of" /\ p[1] \in Cardinals /\ p[3] \in Cardinals
       THEN LET v1 == DIR_MAP[p[1]]
                v2 == DIR_MAP[p[3]]
            IN Dir(v1.dx + v2.dx, v1.dy + v2.dy)
  ELSE NullDir

parseDirectionPhrase(p) ==
  IF p = << >> THEN NullDir
  ELSE IF Len(p) = 1 /\ p[1] \in DOMAIN DIR_MAP THEN DIR_MAP[p[1]]
  ELSE IF Len(p) = 3 /\ p[2] = "of" /\ p[1] \in Cardinals /\ p[3] \in Cardinals
       THEN LET v1 == DIR_MAP[p[1]]
                v2 == DIR_MAP[p[3]]
            IN Dir(clamp(v1.dx + v2.dx, -1, 1), clamp(v1.dy + v2.dy, -1, 1))
  ELSE NullDir

(***************************************************************************)
(* Strength -> distance                                                    *)
(***************************************************************************)
\* A slip of strengthToDistance: the ring numbers 1..5 of the earlier
\* versions of the tool instead of the wedge distances.
strengthToDistanceRing(strengthWord) ==
  IF strengthWord = "faint" THEN 2
  ELSE IF strengthWord = "minuscule" THEN 3
  ELSE IF strengthWord = "vague" THEN 4
  ELSE IF strengthWord = "indistinct" THEN 5
  ELSE 1

\* A slip of strengthToDistance: the distances of vague and slight swapped
\* in the table.
strengthToDistanceSwapped(strengthWord) ==
  IF strengthWord = "" THEN 6
  ELSE IF strengthWord = "slight" THEN 10
  ELSE IF strengthWord = "faint" THEN 8
  ELSE IF strengthWord = "minuscule" THEN 8
  ELSE IF strengthWord = "vague" THEN 6
  ELSE IF strengthWord = "indistinct" THEN 12
  ELSE 6

strengthToDistance(strengthWord) ==
  IF strengthWord = "" THEN 6
  ELSE IF strengthWord = "slight" THEN 6
  ELSE IF strengthWord = "faint" THEN 8
  ELSE IF strengthWord = "minuscule" THEN 8
  ELSE IF strengthWord = "vague" THEN 10
  ELSE IF strengthWord = "indistinct" THEN 12
  ELSE 6

(***************************************************************************)
(* Candidate regions (filled)                                              *)
(***************************************************************************)
matchesDiagonal(dx, dy, dir) ==
  IF dir.dx = 1 /\ dir.dy = 1 THEN dx > 0 /\ dy > 0
  ELSE IF dir.dx = -1 /\ dir.dy = 1 THEN dx < 0 /\ dy > 0
  ELSE IF dir.dx = 1 /\ dir.dy = -1 THEN dx > 0 /\ dy < 0
  ELSE IF dir.dx = -1 /\ dir.dy = -1 THEN dx < 0 /\ dy < 0
  ELSE FALSE

\* A slip of wedgeCandidates: no lateral spread for a cardinal direction
\* (the tiles straight ahead only).
wedgeCandidatesNoSpread(source, d, dir) ==
  IF d < 1 \/ dir.type # "dir" THEN {}
  ELSE IF dir.dx \in {1, -1} /\ dir.dy = 0
       THEN {coordKey(source.x + dx * dir.dx, source.y) : dx \in 1..d}
  ELSE IF dir.dy \in {1, -1} /\ dir.dx = 0
       THEN {coordKey(source.x, source.y + dy * dir.dy) : dy \in 1..d}
  ELSE {coordKey(source.x + o[1], source.y + o[2]) :
          o \in {q \in ((-d)..d) \X ((-d)..d) :
                   /\ matchesDiagonal(q[1], q[2], dir)
                   /\ Abs(q[1]) + Abs(q[2]) <= d}}

\* A slip of wedgeCandidates: the test of the triangle boundary is missing,
\* a diagonal gives the whole quadrant out to d on each axis.
wedgeCandidatesSquare(source, d, dir) ==
  IF d < 1 \/ dir.type # "dir" THEN {}
  ELSE IF dir.dx \in {1, -1} /\ dir.dy = 0
       THEN {coordKey(source.x + dx * dir.dx, source.y + dy) :
               dx \in 1..d, dy \in (-d)..d}
  ELSE IF dir.dy \in {1, -1} /\ dir.dx = 0
       THEN {coordKey(source.x + dx, source.y + dy * dir.dy) :
               dx \in (-d)..d, dy \in 1..d}
  ELSE {coordKey(source.x + o[1], source.y + o[2]) :
          o \in {q \in ((-d)..d) \X ((-d)..d) :
                   /\ ~(q[1] = 0 /\ q[2] = 0)
                   /\ matchesDiagonal(q[1], q[2], dir)}}

wedgeCandidates(source, d, dir) ==
  IF d < 1 \/ dir.type # "dir" THEN {}
  ELSE IF dir.dx \in {1, -1} /\ dir.dy = 0
       THEN {coordKey(source.x + dx * dir.dx, source.y + dy) :
               dx \in 1..d, dy \in (-d)..d}
  ELSE IF dir.dy \in {1, -1} /\ dir.dx = 0
       THEN {coordKey(source.x + dx, source.y + dy * dir.dy) :
               dx \in (-d)..d, dy \in 1..d}
  ELSE {coordKey(source.x + o[1], source.y + o[2]) :
          o \in {q \in ((-d)..d) \X ((-d)..d) :
                   /\ ~(q[1] = 0 /\ q[2] = 0)
                   /\ matchesDiagonal(q[1], q[2], dir)
                   /\ Abs(q[1]) + Abs(q[2]) <= d}}


(***************************************************************************)
(* Parsing.  A line records what each recognizer finds in it:              *)
(*   blank   the line is empty after trim()                                *)
(*   start   startRegex matches, end: endRegex matches                     *)
(*   mine    the text captured by mineRegex ("" when it does not match)    *)
(*   maxql   the number captured by maxQlRegex (NaN when no match)         *)
(*   trace   traceRegex matches; words: the strength words in the line;    *)
(*           desc: the descriptor; phrase: the parenthesized direction     *)
(***************************************************************************)
NoDesc == [something |-> FALSE, qual |-> "", ore |-> ""]
Desc(qual, ore) == [something |-> FALSE, qual |-> qual, ore |-> ore]
SomethingDesc == [something |-> TRUE, qual |-> "", ore |-> "out"]

OtherLine ==
  [blank |-> FALSE, start |-> FALSE, end |-> FALSE, mine |-> "", maxql |-> NaN,
   trace |-> FALSE, words |-> {}, desc |-> NoDesc, phrase |-> << >>]
BlankLine == [OtherLine EXCEPT !.blank = TRUE]
StartLine == [OtherLine EXCEPT !.start = TRUE]
EndLine == [OtherLine EXCEPT !.end = TRUE]
MineLine(raw) == [OtherLine EXCEPT !.mine = raw]
MaxQlLine(n) == [OtherLine EXCEPT !.maxql = Num(n)]
TraceLine(word, desc, phrase) ==
  [OtherLine EXCEPT !.trace = TRUE, !.words = {word}, !.desc = desc,
                    !.phrase = phrase]

extractStrengthWord(line) ==
  LET words == <<"indistinct", "vague", "minuscule", "faint", "slight">>
      hits == {i \in 1..Len(words) : words[i] \in line.words}
  IN IF hits = {} THEN ""
     ELSE words[CHOOSE i \in hits : \A j \in hits : i <= j]

NoParsedDesc == [ok |-> FALSE, ore |-> "", adj |-> ""]

parseOreAndAdjFromDescriptor(d) ==
  IF d = NoDesc THEN NoParsedDesc
  ELSE IF d.something THEN [ok |-> TRUE, ore |-> "Unknown", adj |-> ""]
  ELSE LET adj == IF Includes(d.qual, "utmost quality") THEN "utmost"
                  ELSE IF Includes(d.qual, "very good quality") THEN "very good"
                  ELSE IF Includes(d.qual, "good quality") THEN "good"
                  ELSE IF Includes(d.qual, "normal quality") THEN "normal"
                  ELSE IF Includes(d.qual, "poor quality") THEN "poor"
                  ELSE ""
           ore == d.ore
           norm == oreNormalize(ore)
       IN IF ore = "" THEN NoParsedDesc
          ELSE [ok |-> TRUE, ore |-> IF norm # "" THEN norm ELSE ore, adj |-> adj]

\* text.trim(): leading and trailing blank lines go.
RECURSIVE TrimText(_)
TrimText(t) ==
  IF t = << >> THEN t
  ELSE IF Head(t).blank THEN TrimText(Tail(t))
  ELSE IF t[Len(t)].blank THEN TrimText(SubSeq(t, 1, Len(t) - 1))
  ELSE t

NoSession == [ok |-> FALSE, mineOre |-> "", mineMaxQl |-> NaN, traces |-> << >>]

\* A slip of the loop: "break" for "continue" where the direction of a
\* trace is not resolved, the scan stops at that line.
ParseLineStopAtBadDir(st, line) ==
  IF st.done THEN st
  ELSE IF ~st.started /\ ~line.start THEN st
  ELSE LET s1 == [st EXCEPT !.started = TRUE]
       IN IF line.end THEN [s1 EXCEPT !.done = TRUE]
          ELSE IF line.mine # ""
            THEN LET ore == oreNormalize(line.mine)
                 IN IF ore # "" THEN [s1 EXCEPT !.mineOre = ore] ELSE s1
          ELSE IF line.maxql.num
            THEN [s1 EXCEPT !.mineMaxQl = Num(parseIntSafe(line.maxql, 0))]
          ELSE IF line.trace
            THEN LET strength == extractStrengthWord(line)
                     dir == parseDirectionPhrase(line.phrase)
                     parsed == parseOreAndAdjFromDescriptor(line.desc)
                 IN IF dir.type # "dir" THEN [s1 EXCEPT !.done = TRUE]
                    ELSE IF ~parsed.ok THEN s1
                    ELSE [s1 EXCEPT !.traces = Append(@,
                            [ore |-> IF parsed.ore # "" THEN parsed.ore
                                     ELSE "Unknown",
                             adj |-> parsed.adj,
                             strengthWord |-> strength,
                             dir |-> dir])]
          ELSE s1

\* A slip of the loop: the end trigger does not break, the scan goes on
\* after it.
ParseLineNoBreak(st, line) ==
  IF ~st.started /\ ~line.start THEN st
  ELSE LET s1 == [st EXCEPT !.started = TRUE]
       IN IF line.end THEN s1
          ELSE IF line.mine # ""
            THEN LET ore == oreNormalize(line.mine)
                 IN IF ore # "" THEN [s1 EXCEPT !.mineOre = ore] ELSE s1
          ELSE IF line.maxql.num
            THEN [s1 EXCEPT !.mineMaxQl = Num(parseIntSafe(line.maxql, 0))]
          ELSE IF line.trace
            THEN LET strength == extractStrengthWord(line)
                     dir == parseDirectionPhrase(line.phrase)
                     parsed == parseOreAndAdjFromDescriptor(line.desc)
                 IN IF dir.type # "dir" THEN s1
                    ELSE IF ~parsed.ok THEN s1
                    ELSE [s1 EXCEPT !.traces = Append(@,
                            [ore |-> IF parsed.ore # "" THEN parsed.ore
                                     ELSE "Unknown",
                             adj |-> parsed.adj,
                             strengthWord |-> strength,
                             dir |-> dir])]
          ELSE s1

\* One iteration of the for loop of parseLogBlock; st carries started, done
\* (the break), mineOre, mineMaxQl and traces.
ParseLine(st, line) ==
  IF st.done THEN st
  ELSE IF ~st.started /\ ~line.start THEN st
  ELSE LET s1 == [st EXCEPT !.started = TRUE]
       IN IF line.end THEN [s1 EXCEPT !.done = TRUE]
          ELSE IF line.mine # ""
            THEN LET ore == oreNormalize(line.mine)
                 IN IF ore # "" THEN [s1 EXCEPT !.mineOre = ore] ELSE s1
          ELSE IF line.maxql.num
            THEN [s1 EXCEPT !.mineMaxQl = Num(parseIntSafe(line.maxql, 0))]
          ELSE IF line.trace
            THEN LET strength == extractStrengthWord(line)
                     dir == parseDirectionPhrase(line.phrase)
                     parsed == parseOreAndAdjFromDescriptor(line.desc)
                 IN IF dir.type # "dir" THEN s1
                    ELSE IF ~parsed.ok THEN s1
                    ELSE [s1 EXCEPT !.traces = Append(@,
                            [ore |-> IF parsed.ore # "" THEN parsed.ore
                                     ELSE "Unknown",
                             adj |-> parsed.adj,
                             strengthWord |-> strength,
                             dir |-> dir])]
          ELSE s1

RECURSIVE ParseLines(_, _)
ParseLines(st, lines) ==
  IF lines = << >> THEN st
  ELSE ParseLines(ParseLine(st, Head(lines)), Tail(lines))

\* A slip of parseLogBlock: the scan starts at the first line and a text
\* without a start trigger still yields a session.
parseLogBlockNoGate(rawText) ==
  LET lines == SelectSeq(rawText, LAMBDA l : ~l.blank)
      st0 == [started |-> TRUE, done |-> FALSE, mineOre |-> "",
              mineMaxQl |-> NaN, traces |-> << >>]
      st == ParseLines(st0, lines)
  IN [ok |-> TRUE, mineOre |-> st.mineOre, mineMaxQl |-> st.mineMaxQl,
      traces |-> st.traces]

parseLogBlock(rawText) ==
  LET lines == SelectSeq(rawText, LAMBDA l : ~l.blank)
      st0 == [started |-> FALSE, done |-> FALSE, mineOre |-> "",
              mineMaxQl |-> NaN, traces |-> << >>]
      st == ParseLines(st0, lines)
  IN IF ~st.started THEN NoSession
     ELSE [ok |-> TRUE, mineOre |-> st.mineOre, mineMaxQl |-> st.mineMaxQl,
           traces |-> st.traces]

(***************************************************************************)
(* Multiplicity / solver.  A vein list is a sequence of instances; the     *)
(* solver functions return the new list together with state.nextVeinId.    *)
(***************************************************************************)
NullCoord == [null |-> TRUE]

RECURSIVE BestMatchLoop(_, _, _, _, _, _, _)
BestMatchLoop(veins, ore, qlDisplay, candidateSet, i, best, bestScore) ==
  IF i > Len(veins) THEN IF bestScore > 0 THEN best ELSE 0
  ELSE LET v == veins[i]
           overlap == Cardinality({k \in candidateSet : k \in v.feasible})
       IN IF v.ore # ore \/ v.qlDisplay # qlDisplay \/ v.feasible = {}
            THEN BestMatchLoop(veins, ore, qlDisplay, candidateSet, i + 1,
                               best, bestScore)
          ELSE IF overlap > bestScore
            THEN BestMatchLoop(veins, ore, qlDisplay, candidateSet, i + 1,
                               i, overlap)
          ELSE BestMatchLoop(veins, ore, qlDisplay, candidateSet, i + 1,
                             best, bestScore)

\* A slip of bestMatchingVein: the first instance of the group, whatever
\* its overlap with the candidate set.
bestMatchingVeinAnyOverlap(veins, ore, qlDisplay, candidateSet) ==
  LET same == {i \in 1..Len(veins) :
                 veins[i].ore = ore /\ veins[i].qlDisplay = qlDisplay}
  IN IF same = {} THEN 0 ELSE CHOOSE i \in same : \A j \in same : i <= j

\* A slip of bestMatchingVein: the quality label is not compared, instances
\* of the same ore in any quality group are matched.
bestMatchingVeinAnyQuality(veins, ore, qlDisplay, candidateSet) ==
  LET over(i) == Cardinality({k \in candidateSet : k \in veins[i].feasible})
      same == {i \in 1..Len(veins) : veins[i].ore = ore /\ over(i) > 0}
  IN IF same = {} THEN 0
     ELSE CHOOSE i \in same :
            \A j \in same : over(i) > over(j) \/ (over(i) = over(j) /\ i <= j)

\* A slip of bestMatchingVein: ">=" for ">" in the comparison, so that of
\* the instances with the largest overlap the last one is returned.
bestMatchingVeinLastMax(veins, ore, qlDisplay, candidateSet) ==
  LET over(i) == Cardinality({k \in candidateSet : k \in veins[i].feasible})
      same == {i \in 1..Len(veins) :
                 /\ veins[i].ore = ore /\ veins[i].qlDisplay = qlDisplay
                 /\ over(i) > 0}
  IN IF same = {} THEN 0
     ELSE CHOOSE i \in same :
            \A j \in same : over(i) > over(j) \/ (over(i) = over(j) /\ i >= j)

\* A slip of bestMatchingVein: "if (v.locked) continue" added to the loop,
\* locked instances are never matched.
bestMatchingVeinSkipLocked(veins, ore, qlDisplay, candidateSet) ==
  LET over(i) == Cardinality({k \in candidateSet : k \in veins[i].feasible})
      same == {i \in 1..Len(veins) :
                 /\ veins[i].ore = ore /\ veins[i].qlDisplay = qlDisplay
                 /\ ~veins[i].locked
                 /\ over(i) > 0}
  IN IF same = {} THEN 0
     ELSE CHOOSE i \in same :
            \A j \in same : over(i) > over(j) \/ (over(i) = over(j) /\ i <= j)

\* The index of the matching instance in veins, 0 for null.
bestMatchingVein(veins, ore, qlDisplay, candidateSet) ==
  BestMatchLoop(veins, ore, qlDisplay, candidateSet, 1, 0, 0)

createVeinInstance(nextId, ore, qlDisplay, qlColor, feasibleSet) ==
  [id |-> nextId,
   ore |-> ore,
   qlDisplay |-> qlDisplay,
   qlColor |-> IF qlColor # "" THEN qlColor ELSE DEFAULT_COLOR,
   feasible |-> feasibleSet,
   locked |-> FALSE,
   lockedCoord |-> NullCoord]

\* A slip of lockVeinAt: the search for an instance that holds the tile is
\* left out, every mining context makes an instance.
lockVeinAtAlwaysNew(s, ore, qlDisplay, qlColor, x, y) ==
  LET k == coordKey(x, y)
      vNew == createVeinInstance(s.nextVeinId, ore, qlDisplay, qlColor, {k})
  IN [veins |-> Append(s.veins,
                  [vNew EXCEPT !.locked = TRUE,
                               !.lockedCoord = [x |-> x, y |-> y]]),
      nextVeinId |-> s.nextVeinId + 1]

lockVeinAt(s, ore, qlDisplay, qlColor, x, y) ==
  LET k == coordKey(x, y)
      hits == {i \in 1..Len(s.veins) :
                 /\ s.veins[i].ore = ore
                 /\ s.veins[i].qlDisplay = qlDisplay
                 /\ k \in s.veins[i].feasible}
  IN IF hits # {}
       THEN LET i == CHOOSE h \in hits : \A j \in hits : h <= j
            IN [s EXCEPT !.veins[i] =
                  [@ EXCEPT !.feasible = {k},
                            !.locked = TRUE,
                            !.lockedCoord = [x |-> x, y |-> y],
                            !.qlColor = IF qlColor # "" THEN qlColor ELSE @]]
       ELSE LET vNew == createVeinInstance(s.nextVeinId, ore, qlDisplay,
                                           qlColor, {k})
            IN [veins |-> Append(s.veins,
                            [vNew EXCEPT !.locked = TRUE,
                                         !.lockedCoord = [x |-> x, y |-> y]]),
                nextVeinId |-> s.nextVeinId + 1]

\* A slip of incorporateCandidates: the locked coordinate is read from the
\* candidate set instead of the narrowed feasible set.
incorporateCandidatesWrongCoord(s, ore, qlDisplay, qlColor, candidateSet) ==
  LET match == bestMatchingVein(s.veins, ore, qlDisplay, candidateSet)
  IN IF match = 0
       THEN [veins |-> Append(s.veins,
                         createVeinInstance(s.nextVeinId, ore, qlDisplay,
                                            qlColor, candidateSet)),
             nextVeinId |-> s.nextVeinId + 1]
       ELSE LET f == setIntersect(s.veins[match].feasible, candidateSet)
            IN IF Cardinality(f) = 1
                 THEN [s EXCEPT !.veins[match] =
                         [@ EXCEPT !.feasible = f,
                                   !.locked = TRUE,
                                   !.lockedCoord =
                                      parseCoordKey(CHOOSE only \in candidateSet : TRUE)]]
                 ELSE [s EXCEPT !.veins[match].feasible = f]

\* A slip of incorporateCandidates: the narrowed instance is never locked.
incorporateCandidatesNoLock(s, ore, qlDisplay, qlColor, candidateSet) ==
  LET match == bestMatchingVein(s.veins, ore, qlDisplay, candidateSet)
  IN IF match = 0
       THEN [veins |-> Append(s.veins,
                         createVeinInstance(s.nextVeinId, ore, qlDisplay,
                                            qlColor, candidateSet)),
             nextVeinId |-> s.nextVeinId + 1]
       ELSE [s EXCEPT !.veins[match].feasible =
               setIntersect(s.veins[match].feasible, candidateSet)]

\* A slip of incorporateCandidates: the new instance is put at the front of
\* the list (unshift for push).
incorporateCandidatesUnshift(s, ore, qlDisplay, qlColor, candidateSet) ==
  LET match == bestMatchingVein(s.veins, ore, qlDisplay, candidateSet)
  IN IF match = 0
       THEN [veins |-> << createVeinInstance(s.nextVeinId, ore, qlDisplay,
                                             qlColor, candidateSet) >>
                       \o s.veins,
             nextVeinId |-> s.nextVeinId + 1]
       ELSE LET f == setIntersect(s.veins[match].feasible, candidateSet)
            IN IF Cardinality(f) = 1
                 THEN [s EXCEPT !.veins[match] =
                         [@ EXCEPT !.feasible = f,
                                   !.locked = TRUE,
                                   !.lockedCoord =
                                      parseCoordKey(CHOOSE only \in f : TRUE)]]
                 ELSE [s EXCEPT !.veins[match].feasible = f]

incorporateCandidates(s, ore, qlDisplay, qlColor, candidateSet) ==
  LET match == bestMatchingVein(s.veins, ore, qlDisplay, candidateSet)
  IN IF match = 0
       THEN [veins |-> Append(s.veins,
                         createVeinInstance(s.nextVeinId, ore, qlDisplay,
                                            qlColor, candidateSet)),
             nextVeinId |-> s.nextVeinId + 1]
       ELSE LET f == setIntersect(s.veins[match].feasible, candidateSet)
            IN IF Cardinality(f) = 1
                 THEN [s EXCEPT !.veins[match] =
                         [@ EXCEPT !.feasible = f,
                                   !.locked = TRUE,
                                   !.lockedCoord =
                                      parseCoordKey(CHOOSE only \in f : TRUE)]]
                 ELSE [s EXCEPT !.veins[match].feasible = f]

\* A slip of the grouping: groups.set(key, cand) for every trace, so that
\* the last trace of a group replaces the set of the earlier ones.
RECURSIVE GroupTracesLastWins(_, _, _)
GroupTracesLastWins(source, traces, groups) ==
  IF traces = << >> THEN groups
  ELSE LET t == Head(traces)
           ore == IF t.ore # "" THEN t.ore ELSE "Unknown"
           band == bandForAdj(t.adj)
           qlDisplay == IF band # NoBand THEN band.label ELSE ""
           qlColor == IF band # NoBand THEN band.color ELSE DEFAULT_COLOR
           d == strengthToDistance(t.strengthWord)
           cand == wedgeCandidates(source, d, t.dir)
           key == <<ore, qlDisplay, qlColor>>
           at == {i \in 1..Len(groups) : groups[i][1] = key}
       IN IF cand = {} THEN GroupTracesLastWins(source, Tail(traces), groups)
          ELSE IF at = {}
            THEN GroupTracesLastWins(source, Tail(traces),
                                     Append(groups, <<key, cand>>))
          ELSE LET i == CHOOSE j \in at : TRUE
               IN GroupTracesLastWins(source, Tail(traces),
                    [groups EXCEPT ![i] = <<key, cand>>])

\* The groups Map of one entry, in insertion order: <<key, candidateSet>>
\* pairs, key = <<ore, qlDisplay, qlColor>> (the "||"-joined string).
RECURSIVE GroupTraces(_, _, _)
GroupTraces(source, traces, groups) ==
  IF traces = << >> THEN groups
  ELSE LET t == Head(traces)
           ore == IF t.ore # "" THEN t.ore ELSE "Unknown"
           band == bandForAdj(t.adj)
           qlDisplay == IF band # NoBand THEN band.label ELSE ""
           qlColor == IF band # NoBand THEN band.color ELSE DEFAULT_COLOR
           d == strengthToDistance(t.strengthWord)
           cand == wedgeCandidates(source, d, t.dir)
           key == <<ore, qlDisplay, qlColor>>
           at == {i \in 1..Len(groups) : groups[i][1] = key}
       IN IF cand = {} THEN GroupTraces(source, Tail(traces), groups)
          ELSE IF at = {}
            THEN GroupTraces(source, Tail(traces), Append(groups, <<key, cand>>))
          ELSE LET i == CHOOSE j \in at : TRUE
               IN GroupTraces(source, Tail(traces),
                    [groups EXCEPT ![i] = <<key, setIntersect(@[2], cand)>>])

\* A slip of the loop over the groups: the test of an empty set is missing,
\* a group whose traces have no tile in common is incorporated too.
RECURSIVE IncorporateGroupsNoSkip(_, _)
IncorporateGroupsNoSkip(s, groups) ==
  IF groups = << >> THEN s
  ELSE LET key == Head(groups)[1]
           candSet == Head(groups)[2]
       IN IncorporateGroupsNoSkip(
            incorporateCandidates(s, key[1], key[2], key[3], candSet),
            Tail(groups))

RECURSIVE IncorporateGroups(_, _)
IncorporateGroups(s, groups) ==
  IF groups = << >> THEN s
  ELSE LET key == Head(groups)[1]
           candSet == Head(groups)[2]
       IN IF candSet = {} THEN IncorporateGroups(s, Tail(groups))
          ELSE IncorporateGroups(
                 incorporateCandidates(s, key[1], key[2], key[3], candSet),
                 Tail(groups))

\* The body of the loop over state.entries in rebuildVeinsFromEntries.
ProcessEntry(s, entry) ==
  LET source == [x |-> entry.x, y |-> entry.y]
      parsed == entry.parsed
      s1 == IF parsed.mineOre # "" /\ parsed.mineMaxQl.num
              THEN lockVeinAt(s, parsed.mineOre,
                              ToString(parsed.mineMaxQl.val),
                              qlColorForNumber(parsed.mineMaxQl.val),
                              source.x, source.y)
              ELSE s
  IN IncorporateGroups(s1, GroupTraces(source, parsed.traces, << >>))

\* rebuildVeinsFromEntries: pass[k] is the vein list after entry k.
RECURSIVE RebuildLoop(_, _, _)
RebuildLoop(s, ents, pass) ==
  IF ents = << >> THEN [veins |-> s.veins, nextVeinId |-> s.nextVeinId,
                        pass |-> pass]
  ELSE LET s1 == ProcessEntry(s, Head(ents))
       IN RebuildLoop(s1, Tail(ents), Append(pass, s1.veins))

rebuildVeinsFromEntries(ents, nextId) ==
  RebuildLoop([veins |-> << >>, nextVeinId |-> nextId], ents, << >>)

(***************************************************************************)
(* State.  entries and nextVeinId are the fields of state; persisted is    *)
(* the item of localStorage under STORAGE_KEY; veins is the list the last  *)
(* render() drew and pass the lists its rebuild went through, pass[k]      *)
(* after entry k.  hist records the last handler that ran: its kind, the   *)
(* text it was given, and, after an undo, the entry list and the vein list *)
(* the undo started from; after an add, in prior and priorVeins, the entry *)
(* list and the vein list (ids blanked) the add started from, which an     *)
(* undo that follows the add keeps, with n = 1; after a reset, in n, the   *)
(* number of entries it cleared.  rq and rout are the request and the      *)
(* answer of a function of the script run on its own: the direction        *)
(* resolver, wedgeCandidates, the parser.                                  *)
(***************************************************************************)
VARIABLES entries, nextVeinId, persisted, veins, pass, hist, rq, rout

\* The keyed solver of src/unnamed/part_003: state is its state object
\* (entries, locked, feasible), trail the locked map after each entry of the
\* last rebuildAll together with the handler that ran last.
VARIABLES state, trail

\* The history/async variant of src/unnamed/part_001: model.entries (model),
\* history, historyIndex and lastComputed as in the script; pending holds
\* the recomputeAndRender invocations suspended at a fetch, oldest first;
\* solveLog is the argument of the last call of solve and, per entry, the
\* text read before the expansion and what the expansion came to.
VARIABLES model, history, historyIndex, lastComputed, pending, solveLog

\* The ring-geometry script of src/unnamed/part_001 (its first program):
\* ringState is its state object (entries, nextVeinId), ringStored the item
\* of localStorage, ringVeins the list its last render() drew.  ringQuery
\* and ringOut are the request and the answer of ringCandidates run on its
\* own.
VARIABLES ringState, ringStored, ringVeins, ringQuery, ringOut

appVars == <<entries, nextVeinId, persisted, veins, pass, hist>>
resolverVars == <<rq, rout>>
keyedVars == <<state, trail>>
asyncVars == <<model, history, historyIndex, lastComputed, pending, solveLog>>
ringVars == <<ringState, ringStored, ringVeins, ringQuery, ringOut>>

vars == <<entries, nextVeinId, persisted, veins, pass, hist, rq, rout,
          state, trail,
          model, history, historyIndex, lastComputed, pending, solveLog,
          ringState, ringStored, ringVeins, ringQuery, ringOut>>

(***************************************************************************)
(* The inputs the handlers are given.                                      *)
(***************************************************************************)
TxtEast ==
  << StartLine,
     TraceLine("slight", Desc("normal quality", "iron"), <<"east">>) >>

TxtWest ==
  << OtherLine, StartLine,
     TraceLine("slight", Desc("normal quality", "iron"), <<"west">>),
     EndLine,
     TraceLine("vague", Desc("normal quality", "iron"), <<"north">>) >>

TxtNorthEast ==
  << BlankLine, StartLine,
     TraceLine("slight", Desc("good quality", "iron"), <<"northeast">>),
     TraceLine("faint", Desc("good quality", "iron"), <<"north", "of", "east">>),
     BlankLine >>

TxtSouthWest ==
  << StartLine,
     TraceLine("slight", Desc("good quality", "iron"), <<"southwest">>) >>

TxtMine ==
  << StartLine, MineLine("iron ore"), MaxQlLine(78) >>

TxtNoStart ==
  << MineLine("iron ore"), MaxQlLine(78),
     TraceLine("slight", Desc("normal quality", "iron"), <<"east">>) >>

TxtBlank == << BlankLine >>

Texts == {TxtEast, TxtWest, TxtNorthEast, TxtSouthWest, TxtMine, TxtNoStart,
          TxtBlank}

\* The values of the stepX and stepY fields.
StepInputs == { <<Num(0), Num(0)>>, <<Num(5), Num(0)>>, <<Num(2), Num(2)>>,
                <<NaN, Num(0)>> }

NoHist(op, text) ==
  [op |-> op, text |-> text, before |-> << >>, beforeVeins |-> << >>,
   prior |-> << >>, priorVeins |-> << >>, n |-> 0]

\* A vein list with the ids blanked.
StripIds(list) == [i \in 1..Len(list) |-> [list[i] EXCEPT !.id = 0]]

NoPersisted == [present |-> FALSE, entries |-> << >>, nextVeinId |-> 1]

Idle == [src |-> [x |-> 0, y |-> 0], word |-> "", phrase |-> << >>,
         done |-> FALSE]

\* The keyed solver before its first entry.
EmptyMap == [k \in {} |-> {}]

KeyedStart == [entries |-> << >>, locked |-> EmptyMap, feasible |-> EmptyMap]

KeyedIdle ==
  /\ state = KeyedStart
  /\ trail = [op |-> "init", locks |-> << >>]

\* The history/async variant after its init code: one empty entry, one
\* snapshot, and the first recomputeAndRender run to its end (an empty text
\* needs no fetch).
FreshModel == << [dx |-> 0, dy |-> 0, logText |-> ""] >>

AsyncIdle ==
  /\ model = FreshModel
  /\ history = << FreshModel >>
  /\ historyIndex = 0
  /\ lastComputed = [playerPos |-> << [x |-> 0, y |-> 0] >>, texts |-> << "" >>]
  /\ pending = << >>
  /\ solveLog = [given |-> FreshModel,
                 trace |-> << [orig |-> "", res |-> [ok |-> TRUE, text |-> ""]] >>]

\* The ring-geometry script before its first entry, nothing stored.
RingQueryIdle == [src |-> [x |-> 0, y |-> 0], d |-> 0, dir |-> NullDir,
                  done |-> FALSE]

RingIdle ==
  /\ ringState = [entries |-> << >>, nextVeinId |-> 1]
  /\ ringStored = NoPersisted
  /\ ringVeins = << >>
  /\ ringQuery = RingQueryIdle
  /\ ringOut = {}

Init ==
  /\ entries = << >>
  /\ nextVeinId = 1
  /\ persisted = NoPersisted
  /\ veins = << >>
  /\ pass = << >>
  /\ hist = NoHist("init", << >>)
  /\ rq = Idle
  /\ rout = {}
  /\ KeyedIdle
  /\ AsyncIdle
  /\ RingIdle

currentPosition(ents) ==
  IF Len(ents) = 0 THEN [x |-> 0, y |-> 0]
  ELSE [x |-> ents[Len(ents)].x, y |-> ents[Len(ents)].y]

\* A slip of the pop: shift(), which drops the oldest entry.
PopEntryShift(ents) == IF ents = << >> THEN ents ELSE Tail(ents)

\* A slip of the pop: entries.length = 0, which drops every entry.
PopEntryClear(ents) == << >>

\* Array.prototype.pop on state.entries.
PopEntry(ents) ==
  IF ents = << >> THEN ents ELSE SubSeq(ents, 1, Len(ents) - 1)

\* saveState: JSON.stringify(state) into localStorage.
saveState(ents, nextId) ==
  [present |-> TRUE, entries |-> ents, nextVeinId |-> nextId]

\* render: the rebuild, with the side effect on state.nextVeinId.
render(ents) ==
  LET r == rebuildVeinsFromEntries(ents, nextVeinId)
  IN /\ veins' = r.veins
     /\ pass' = r.pass
     /\ nextVeinId' = r.nextVeinId

\* A slip of addEntry: the step fields are stored as the position itself,
\* not added to the position of the last entry.
NewEntryAbsolute(ents, stepX, stepY, raw, parsed) ==
  LET dx == parseIntSafe(stepX, 0)
      dy == parseIntSafe(stepY, 0)
  IN [x |-> dx, y |-> dy, dx |-> dx, dy |-> dy,
      parsed |-> [mineOre |-> parsed.mineOre, mineMaxQl |-> parsed.mineMaxQl,
                  traces |-> parsed.traces],
      raw |-> raw]

NewEntry(ents, stepX, stepY, raw, parsed) ==
  LET dx == parseIntSafe(stepX, 0)
      dy == parseIntSafe(stepY, 0)
      cur == currentPosition(ents)
  IN [x |-> cur.x + dx, y |-> cur.y + dy, dx |-> dx, dy |-> dy,
      parsed |-> [mineOre |-> parsed.mineOre, mineMaxQl |-> parsed.mineMaxQl,
                  traces |-> parsed.traces],
      raw |-> raw]

\* The add after an undo that gives back the step and the text undone.
IsReAdd(stepX, stepY, raw) ==
  /\ hist.op = "undo"
  /\ hist.before # << >>
  /\ LET e == hist.before[Len(hist.before)]
     IN /\ e.dx = parseIntSafe(stepX, 0)
        /\ e.dy = parseIntSafe(stepY, 0)
        /\ e.raw = raw

\* The click handler of the add button, for a list of fewer than maxLen
\* entries and a counter of at most maxId.
addEntryWithin(maxLen, maxId, stepX, stepY, text) ==
  /\ Len(entries) < maxLen
  /\ nextVeinId <= maxId
  /\ LET raw == TrimText(text)
         parsed == parseLogBlock(raw)
     IN IF raw = << >> \/ ~parsed.ok
          THEN /\ hist' = NoHist("reject", text)
               /\ UNCHANGED <<entries, nextVeinId, persisted, veins, pass>>
          ELSE /\ entries' = Append(entries,
                                    NewEntry(entries, stepX, stepY, raw, parsed))
               /\ persisted' = saveState(entries', nextVeinId)
               /\ render(entries')
               /\ hist' = [(IF IsReAdd(stepX, stepY, raw)
                              THEN [hist EXCEPT !.op = "readd", !.text = text]
                              ELSE NoHist("add", text))
                            EXCEPT !.prior = entries,
                                   !.priorVeins = StripIds(veins),
                                   !.n = 0]
  /\ UNCHANGED <<resolverVars, keyedVars, asyncVars, ringVars>>

addEntry(stepX, stepY, text) ==
  addEntryWithin(MaxEntries, MaxVeinId, stepX, stepY, text)

undoEntry ==
  /\ nextVeinId <= MaxVeinId
  /\ entries' = PopEntry(entries)
  /\ persisted' = saveState(entries', nextVeinId)
  /\ render(entries')
  /\ hist' = LET afterAdd == hist.op \in {"add", "readd"}
              IN [op |-> "undo", text |-> << >>, before |-> entries,
                  beforeVeins |-> veins,
                  prior |-> IF afterAdd THEN hist.prior ELSE << >>,
                  priorVeins |-> IF afterAdd THEN hist.priorVeins ELSE << >>,
                  n |-> IF afterAdd THEN 1 ELSE 0]
  /\ UNCHANGED <<resolverVars, keyedVars, asyncVars, ringVars>>

\* A slip of resetAll: the list is cleared, the id counter is not set back.
resetAllKeepIds(confirmed) ==
  /\ IF ~confirmed
       THEN /\ hist' = NoHist("decline", << >>)
            /\ UNCHANGED <<entries, nextVeinId, persisted, veins, pass>>
       ELSE /\ entries' = << >>
            /\ persisted' = saveState(<< >>, nextVeinId)
            /\ render(<< >>)
            /\ hist' = [NoHist("reset", << >>) EXCEPT !.n = Len(entries)]
  /\ UNCHANGED <<resolverVars, keyedVars, asyncVars, ringVars>>

resetAll(confirmed) ==
  /\ IF ~confirmed
       THEN /\ hist' = NoHist("decline", << >>)
            /\ UNCHANGED <<entries, nextVeinId, persisted, veins, pass>>
       ELSE /\ entries' = << >>
            /\ persisted' = saveState(<< >>, 1)
            /\ LET r == rebuildVeinsFromEntries(<< >>, 1)
               IN /\ veins' = r.veins
                  /\ pass' = r.pass
                  /\ nextVeinId' = r.nextVeinId
            /\ hist' = [NoHist("reset", << >>) EXCEPT !.n = Len(entries)]
  /\ UNCHANGED <<resolverVars, keyedVars, asyncVars, ringVars>>

\* loadState: the stored item parsed, when there is one and it holds an
\* entries array (what saveState wrote always does, with a finite counter);
\* otherwise the state the script starts with.  The stored state holds
\* strings, finite numbers, null, arrays and plain objects only, which
\* JSON.stringify and JSON.parse give back as they were.
loadStateFresh(p) == [entries |-> << >>, nextVeinId |-> 1]

loadState(p) ==
  IF ~p.present THEN [entries |-> << >>, nextVeinId |-> 1]
  ELSE [entries |-> p.entries, nextVeinId |-> p.nextVeinId]

\* The page is loaded again: state is the literal of the script, then
\* loadState(); render().  Nothing is saved.
reload ==
  /\ LET st == loadState(persisted)
         r == rebuildVeinsFromEntries(st.entries, st.nextVeinId)
     IN /\ entries' = st.entries
        /\ veins' = r.veins
        /\ pass' = r.pass
        /\ nextVeinId' = r.nextVeinId
  /\ hist' = [NoHist("reload", << >>) EXCEPT !.before = entries,
                                             !.beforeVeins = veins]
  /\ UNCHANGED <<persisted, resolverVars, keyedVars, asyncVars, ringVars>>

Next ==
  \/ \E st \in StepInputs, t \in Texts : addEntry(st[1], st[2], t)
  \/ undoEntry
  \/ \E c \in BOOLEAN : resetAll(c)

Spec == Init /\ [][Next]_vars

(***************************************************************************)
(* The same handlers with the page reload, on texts that carry a bulk      *)
(* filler mining line, a group whose traces contradict each other, and     *)
(* three directions of one group.                                          *)
(***************************************************************************)
TxtNorth ==
  << StartLine,
     TraceLine("slight", Desc("normal quality", "iron"), <<"north">>) >>

TxtCross ==
  << StartLine,
     TraceLine("slight", Desc("normal quality", "iron"), <<"east">>),
     TraceLine("slight", Desc("good quality", "iron"), <<"northeast">>),
     TraceLine("slight", Desc("normal quality", "iron"), <<"west">>),
     TraceLine("faint", Desc("good quality", "iron"), <<"north", "of", "east">>) >>

TxtShards ==
  << StartLine, MineLine("stone shards"), MaxQlLine(78) >>

TxtShardsEast ==
  << StartLine, MineLine("rock shards"), MaxQlLine(50),
     TraceLine("slight", Desc("normal quality", "iron"), <<"east">>) >>

TextsAlt == {TxtWest, TxtShardsEast, TxtNorth, TxtCross, TxtShards, TxtMine}

StepInputsAlt == { <<Num(0), Num(0)>>, <<Num(2), Num(2)>> }

NextAlt ==
  \/ \E st \in StepInputsAlt, t \in TextsAlt : addEntry(st[1], st[2], t)
  \/ undoEntry
  \/ \E c \in BOOLEAN : resetAll(c)
  \/ reload

SpecAlt == Init /\ [][NextAlt]_vars

(***************************************************************************)
(* The same handlers on longer lists of entries of one group (good quality  *)
(* iron seen to the northeast or to the southwest), where an instance is   *)
(* locked by narrowing and a second instance of the group stands beside it.*)
(***************************************************************************)
MaxDeepEntries == 4
MaxDeepVeinId == 6

TextsDeep == {TxtNorthEast, TxtSouthWest}

NextDeep ==
  \/ \E st \in StepInputsAlt, t \in TextsDeep :
       addEntryWithin(MaxDeepEntries, MaxDeepVeinId, st[1], st[2], t)
  \/ undoEntry
  \/ \E c \in BOOLEAN : resetAll(c)

SpecDeep == Init /\ [][NextDeep]_vars

(***************************************************************************)
(* The same handlers on logs that are pasted twice: a session with a       *)
(* mining context and a trace, and sessions of single trace groups.        *)
(***************************************************************************)
TxtMineEast ==
  << StartLine, MineLine("iron ore"), MaxQlLine(78),
     TraceLine("slight", Desc("normal quality", "iron"), <<"east">>) >>

TextsDup == {TxtMineEast, TxtEast, TxtNorthEast, TxtMine}

NextDup ==
  \/ \E st \in StepInputsAlt, t \in TextsDup :
       addEntryWithin(MaxEntries, MaxDeepVeinId, st[1], st[2], t)
  \/ undoEntry
  \/ \E c \in BOOLEAN : resetAll(c)

SpecDup == Init /\ [][NextDup]_vars

(***************************************************************************)
(* The direction resolver on its own: the candidate set of one trace, as   *)
(* rebuildVeinsFromEntries computes it from the strength word and the      *)
(* direction phrase of the line.                                           *)
(***************************************************************************)
StrengthWords == {"slight", "faint", "minuscule", "vague", "indistinct"}

CanonicalPhrases ==
  { <<"north">>, <<"south">>, <<"east">>, <<"west">>, <<"northeast">>,
    <<"northwest">>, <<"southeast">>, <<"southwest">> }

CompoundPhrases ==
  { <<"north", "of", "east">>, <<"south", "of", "west">>,
    <<"east", "of", "west">>, <<"up">> }

Origin == [x |-> 0, y |-> 0]

ResolverSources == { Origin, [x |-> 5, y |-> 0], [x |-> -2, y |-> 3] }

InitResolver ==
  /\ entries = << >>
  /\ nextVeinId = 1
  /\ persisted = NoPersisted
  /\ veins = << >>
  /\ pass = << >>
  /\ hist = NoHist("init", << >>)
  /\ rq \in [src : ResolverSources, word : StrengthWords \cup {""},
             phrase : CanonicalPhrases \cup CompoundPhrases, done : {FALSE}]
  /\ rout = {}
  /\ KeyedIdle
  /\ AsyncIdle
  /\ RingIdle

candidates(source, strengthWord, phrase) ==
  wedgeCandidates(source, strengthToDistance(strengthWord),
                  parseDirectionPhrase(phrase))

Resolve ==
  /\ ~rq.done
  /\ rq' = [rq EXCEPT !.done = TRUE]
  /\ rout' = candidates(rq.src, rq.word, rq.phrase)
  /\ UNCHANGED <<appVars, keyedVars, asyncVars, ringVars>>

NextResolver == Resolve

SpecResolver == InitResolver /\ [][NextResolver]_vars

(***************************************************************************)
(* The keyed solver of src/unnamed/part_003.  A line of a pasted log is a  *)
(* record of what the regular expressions of its parser find in it:        *)
(*   exact    the ore captured by "you would mine ... here" ("" if none)   *)
(*   ore, dir the ore and the direction text captured by "traces of ...    *)
(*            (...)" (ore "" if the line does not match)                   *)
(*   words    the strength words the line holds                            *)
(*   qnum     the first number in the line (NaN if none)                   *)
(*   adjs     the quality adjectives the line holds                        *)
(* A vein key ("ore qbin" in the code) is the pair <<ore, qbin>>, a tile   *)
(* ("x,y") the pair <<x, y>>.                                              *)
(***************************************************************************)
MaxKeyedEntries == 3

KeyedLine(exact, ore, dir, words, qnum, adjs) ==
  [blank |-> FALSE, exact |-> exact, ore |-> ore, dir |-> dir, words |-> words,
   qnum |-> qnum, adjs |-> adjs]

KeyedBlank == [KeyedLine("", "", "", {}, NaN, {}) EXCEPT !.blank = TRUE]

ExactLine(ore) == KeyedLine(ore, "", "", {}, NaN, {})

\* "You find <word> traces of <ore> (<dir>)."
TracesLine(word, ore, dir) ==
  KeyedLine("", ore, dir, {"traces"} \cup (IF word = "" THEN {} ELSE {word}),
            NaN, {})

\* normalizeDirText over the direction texts of the model's vocabulary:
\* trimmed, lower-cased, hyphens to spaces, runs of spaces collapsed.
normalizeDirText(t) ==
  CASE t = "North of East" -> "north of east"
    [] t = " east " -> "east"
    [] t = "north-east" -> "north east"
    [] OTHER -> t

dirSector(dx, dy) ==
  IF dx = 0 /\ dy = 0 THEN "CENTER"
  ELSE IF dx = 0 THEN (IF dy > 0 THEN "N" ELSE "S")
  ELSE IF dy = 0 THEN (IF dx > 0 THEN "E" ELSE "W")
  ELSE IF Abs(dx) = Abs(dy)
    THEN (IF dx > 0 /\ dy > 0 THEN "NE"
          ELSE IF dx > 0 /\ dy < 0 THEN "SE"
          ELSE IF dx < 0 /\ dy < 0 THEN "SW"
          ELSE "NW")
  ELSE IF Abs(dy) > Abs(dx)
    THEN (IF dy > 0 THEN (IF dx > 0 THEN "E of N" ELSE "W of N")
          ELSE (IF dx > 0 THEN "E of S" ELSE "W of S"))
  ELSE (IF dx > 0 THEN (IF dy > 0 THEN "N of E" ELSE "S of E")
        ELSE (IF dy > 0 THEN "N of W" ELSE "S of W"))

\* The Chebyshev ring at distance d, as a set of tiles.
ringCandidates(px, py, d) ==
  { <<px + o[1], py + o[2]>> :
      o \in {q \in ((-d)..d) \X ((-d)..d) : Max2(Abs(q[1]), Abs(q[2])) = d} }

keyedDIR_MAP ==
  [t \in {"north", "south", "east", "west", "northeast", "northwest",
          "southeast", "southwest", "east of north", "west of north",
          "east of south", "west of south", "north of east", "south of east",
          "north of west", "south of west"} |->
     CASE t = "north" -> "N" [] t = "south" -> "S"
       [] t = "east" -> "E" [] t = "west" -> "W"
       [] t = "northeast" -> "NE" [] t = "northwest" -> "NW"
       [] t = "southeast" -> "SE" [] t = "southwest" -> "SW"
       [] t = "east of north" -> "E of N" [] t = "west of north" -> "W of N"
       [] t = "east of south" -> "E of S" [] t = "west of south" -> "W of S"
       [] t = "north of east" -> "N of E" [] t = "south of east" -> "S of E"
       [] t = "north of west" -> "N of W" [] t = "south of west" -> "S of W"]

candidatesForLine(px, py, d, dirText) ==
  LET t == normalizeDirText(dirText)
  IN IF t \notin DOMAIN keyedDIR_MAP THEN {}
     ELSE {c \in ringCandidates(px, py, d) :
             dirSector(c[1] - px, c[2] - py) = keyedDIR_MAP[t]}

\* strengthToDistance(line) of part_003; 0 stands for null.
keyedStrengthToDistance(line) ==
  IF "indistinct" \in line.words THEN 6
  ELSE IF "vague" \in line.words THEN 5
  ELSE IF "minuscule" \in line.words THEN 4
  ELSE IF "faint" \in line.words THEN 3
  ELSE IF "slight" \in line.words THEN 2
  ELSE IF line.words \cap {"trace", "traces"} # {} THEN 1
  ELSE 0

qualityBinFromLine(line) ==
  IF line.qnum.num
    THEN (IF line.qnum.val >= 95 THEN "95-99"
          ELSE IF line.qnum.val >= 80 THEN "80-94"
          ELSE IF line.qnum.val >= 60 THEN "60-79"
          ELSE IF line.qnum.val >= 40 THEN "40-59"
          ELSE IF line.qnum.val >= 20 THEN "20-39"
          ELSE "1-19")
  ELSE IF "utmost" \in line.adjs THEN "95-99"
  ELSE IF "very good" \in line.adjs THEN "80-94"
  ELSE IF "good" \in line.adjs THEN "60-79"
  ELSE IF "normal" \in line.adjs THEN "40-59"
  ELSE IF "poor" \in line.adjs THEN "20-39"
  ELSE "unknown"

NoLine == [ok |-> FALSE, ore |-> "", qbin |-> "", d |-> 0, dir |-> ""]

parseDirectionalLine(line) ==
  IF line.ore = "" THEN NoLine
  ELSE LET d == keyedStrengthToDistance(line)
       IN IF d = 0 THEN NoLine
          ELSE [ok |-> TRUE, ore |-> line.ore, qbin |-> qualityBinFromLine(line),
                d |-> d, dir |-> line.dir]

parseExactLine(line) ==
  IF line.exact = "" THEN NoLine
  ELSE IF line.exact \in {"stone shards"} THEN NoLine
  ELSE [ok |-> TRUE, ore |-> line.exact, qbin |-> qualityBinFromLine(line),
        d |-> 0, dir |-> ""]

RECURSIVE parseLogLoop(_, _)
parseLogLoop(lines, acc) ==
  IF lines = << >> THEN acc
  ELSE LET line == Head(lines)
           ex == parseExactLine(line)
           dl == parseDirectionalLine(line)
       IN IF line.blank THEN parseLogLoop(Tail(lines), acc)
          ELSE IF ex.ok
            THEN parseLogLoop(Tail(lines), [acc EXCEPT !.exact = Append(@, ex)])
          ELSE IF dl.ok
            THEN parseLogLoop(Tail(lines),
                              [acc EXCEPT !.directional = Append(@, dl)])
          ELSE parseLogLoop(Tail(lines), acc)

parseLog(text) == parseLogLoop(text, [directional |-> << >>, exact |-> << >>])

veinKey(ore, qbin) == <<ore, qbin>>

\* Map.prototype.set and Map.prototype.delete on a map held as a function.
MapSet(m, k, v) == [j \in DOMAIN m \cup {k} |-> IF j = k THEN v ELSE m[j]]
MapDelete(m, k) == [j \in DOMAIN m \ {k} |-> m[j]]

\* applyEntry, the loop over the exact lines.  With relock, the slip of
\* leaving out "if (state.locked.has(key)) continue".
RECURSIVE ExactLocks(_, _, _, _)
ExactLocks(st, exact, tile, relock) ==
  IF exact = << >> THEN st
  ELSE LET key == veinKey(Head(exact).ore, Head(exact).qbin)
       IN IF ~relock /\ key \in DOMAIN st.locked
            THEN ExactLocks(st, Tail(exact), tile, relock)
          ELSE ExactLocks([st EXCEPT !.locked = MapSet(@, key, tile),
                                     !.feasible = MapDelete(@, key)],
                          Tail(exact), tile, relock)

\* A slip of the grouping: "if (state.locked.has(key)) continue" is left
\* out, the lines of a locked key are grouped like the others.
RECURSIVE GroupLinesNoSkip(_, _, _)
GroupLinesNoSkip(st, directional, grouped) ==
  IF directional = << >> THEN grouped
  ELSE LET dl == Head(directional)
           key == veinKey(dl.ore, dl.qbin)
           at == {i \in 1..Len(grouped) : grouped[i][1] = key}
       IN IF at = {}
            THEN GroupLinesNoSkip(st, Tail(directional),
                                  Append(grouped, <<key, <<dl>> >>))
          ELSE LET i == CHOOSE j \in at : TRUE
               IN GroupLinesNoSkip(st, Tail(directional),
                    [grouped EXCEPT ![i] = <<key, Append(@[2], dl)>>])

\* applyEntry, the grouped Map: <<key, lines>> pairs in insertion order.
RECURSIVE GroupLines(_, _, _)
GroupLines(st, directional, grouped) ==
  IF directional = << >> THEN grouped
  ELSE LET dl == Head(directional)
           key == veinKey(dl.ore, dl.qbin)
           at == {i \in 1..Len(grouped) : grouped[i][1] = key}
       IN IF key \in DOMAIN st.locked
            THEN GroupLines(st, Tail(directional), grouped)
          ELSE IF at = {}
            THEN GroupLines(st, Tail(directional),
                            Append(grouped, <<key, <<dl>> >>))
          ELSE LET i == CHOOSE j \in at : TRUE
               IN GroupLines(st, Tail(directional),
                    [grouped EXCEPT ![i] = <<key, Append(@[2], dl)>>])

\* applyEntry, the entry-local set S of one key.
RECURSIVE IntersectLines(_, _, _, _)
IntersectLines(x, y, lines, S) ==
  IF lines = << >> THEN S
  ELSE LET C == candidatesForLine(x, y, Head(lines).d, Head(lines).dir)
       IN IntersectLines(x, y, Tail(lines), setIntersect(S, C))

RECURSIVE ApplyGroups(_, _, _, _)
ApplyGroups(st, grouped, x, y) ==
  IF grouped = << >> THEN st
  ELSE LET key == Head(grouped)[1]
           lines == Head(grouped)[2]
           local == IntersectLines(x, y, Tail(lines),
                      candidatesForLine(x, y, Head(lines).d, Head(lines).dir))
           S == IF key \in DOMAIN st.feasible
                  THEN setIntersect(st.feasible[key], local)
                  ELSE local
       IN IF Cardinality(S) = 1
            THEN ApplyGroups([st EXCEPT
                                !.locked = MapSet(@, key, CHOOSE only \in S : TRUE),
                                !.feasible = MapDelete(@, key)],
                             Tail(grouped), x, y)
            ELSE ApplyGroups([st EXCEPT !.feasible = MapSet(@, key, S)],
                             Tail(grouped), x, y)

\* A slip of applyEntry: an exact line locks its key again.
applyEntryRelock(st, entry) ==
  LET parsed == parseLog(entry.text)
      s1 == ExactLocks(st, parsed.exact, <<entry.x, entry.y>>, TRUE)
  IN ApplyGroups(s1, GroupLines(s1, parsed.directional, << >>),
                 entry.x, entry.y)

applyEntry(st, entry) ==
  LET parsed == parseLog(entry.text)
      s1 == ExactLocks(st, parsed.exact, <<entry.x, entry.y>>, FALSE)
  IN ApplyGroups(s1, GroupLines(s1, parsed.directional, << >>),
                 entry.x, entry.y)

\* rebuildAll: both maps cleared, every entry applied; locks[k] is
\* state.locked after entry k.
RECURSIVE rebuildAllLoop(_, _, _)
rebuildAllLoop(st, ents, locks) ==
  IF ents = << >> THEN [state |-> st, locks |-> locks]
  ELSE LET s1 == applyEntry(st, Head(ents))
       IN rebuildAllLoop(s1, Tail(ents), Append(locks, s1.locked))

rebuildAll(ents) ==
  rebuildAllLoop([entries |-> ents, locked |-> EmptyMap, feasible |-> EmptyMap],
                 ents, << >>)

\* regenerate, after the handler has set state.entries.
regenerate(ents, op) ==
  LET r == rebuildAll(ents)
  IN /\ state' = r.state
     /\ trail' = [op |-> op, locks |-> r.locks]

\* parseInt(value, 10) || 0
parseIntOr0(v) == IF v.num THEN v.val ELSE 0

\* The click handler of addBtn; stepX and stepY are the position itself.
addBtn(stepX, stepY, text) ==
  /\ Len(state.entries) < MaxKeyedEntries
  /\ IF \A i \in 1..Len(text) : text[i].blank
       THEN /\ trail' = [trail EXCEPT !.op = "alert"]
            /\ UNCHANGED state
       ELSE regenerate(Append(state.entries,
                              [x |-> parseIntOr0(stepX), y |-> parseIntOr0(stepY),
                               text |-> text]), "add")
  /\ UNCHANGED <<appVars, resolverVars, asyncVars, ringVars>>

undoBtn ==
  /\ regenerate(PopEntry(state.entries), "undo")
  /\ UNCHANGED <<appVars, resolverVars, asyncVars, ringVars>>

resetBtn(confirmed) ==
  /\ IF ~confirmed
       THEN /\ trail' = [trail EXCEPT !.op = "decline"]
            /\ UNCHANGED state
       ELSE regenerate(<< >>, "reset")
  /\ UNCHANGED <<appVars, resolverVars, asyncVars, ringVars>>

\* The logs and positions the handlers are given.
KTxtExactIron == << ExactLine("iron") >>

KTxtEast == << TracesLine("slight", "iron", " east ") >>

KTxtNorthOfEast ==
  << KeyedBlank, TracesLine("faint", "iron", "North of East"),
     TracesLine("", "copper", "north") >>

KTxtShards == << ExactLine("stone shards"), TracesLine("faint", "tin", "north-east") >>

KeyedTexts == {KTxtExactIron, KTxtEast, KTxtNorthOfEast, KTxtShards,
               << KeyedBlank >>}

KeyedSteps == { <<Num(0), Num(0)>>, <<Num(0), Num(1)>>, <<NaN, Num(2)>> }

NextKeyed ==
  \/ \E st \in KeyedSteps, t \in KeyedTexts : addBtn(st[1], st[2], t)
  \/ undoBtn
  \/ \E c \in BOOLEAN : resetBtn(c)

SpecKeyed == Init /\ [][NextKeyed]_vars

(***************************************************************************)
(* The history/async variant of src/unnamed/part_001 (second program).     *)
(* An entry is a record [dx, dy, logText]; a text is a string of a small   *)
(* vocabulary.  Objects the script shares are followed by their aliases:   *)
(* a suspended invocation iterates model.entries itself while live, and    *)
(* the array it started on (arr) once model was replaced; e is the entry   *)
(* object of its current loop step, epos that object's place in the live   *)
(* array (0 when it is no longer there), i the place the array iterator     *)
(* stands at.                                                              *)
(***************************************************************************)
MaxAsyncEntries == 2
MaxHistory == 4
MaxPending == 2

PlainText == "  log A  "
UrlText == "https://pastebin.com/abc"

AsyncTexts == {"", PlainText, UrlText}

\* String.prototype.trim on the vocabulary.
TrimString(t) == IF t = PlainText THEN "log A" ELSE t

\* /^https?:\/\//i.test(t)
IsUrl(t) == t \in {UrlText, "https://pastebin.com/raw/abc"}

\* The pastebin page address rewritten to the raw address.
RawUrl(t) == IF t = UrlText THEN "https://pastebin.com/raw/abc" ELSE t

\* The body the server answers with.
FetchBody(url) == IF url = "https://pastebin.com/raw/abc" THEN "log B" ELSE ""

Expanded(text) == [ok |-> TRUE, text |-> text]
Failed == [ok |-> FALSE, text |-> ""]

\* A slip of the try/catch around the expansion: a failed expansion leaves
\* an empty text.
SettleDropOnFail(orig, res) == IF res.ok THEN res.text ELSE ""

\* logText after "try { logText = await expandPastebinIfNeeded(logText) }
\* catch { }": res is what the expansion came to.
Settle(orig, res) == IF res.ok THEN res.text ELSE orig

\* solve, as far as the entries it is given go: the player positions it
\* accumulates and the texts it hands to parseLogToSession, entry by entry.
\* The veins it derives from them are a function of these.
RECURSIVE playerPosLoop(_, _, _, _)
playerPosLoop(ents, i, g, acc) ==
  IF i > Len(ents) THEN acc
  ELSE LET p == IF i = 1 THEN [x |-> 0, y |-> 0]
                ELSE [x |-> g.x + ents[i].dx, y |-> g.y + ents[i].dy]
       IN playerPosLoop(ents, i + 1, p, Append(acc, p))

solve(ents) ==
  [playerPos |-> playerPosLoop(ents, 1, [x |-> 0, y |-> 0], << >>),
   texts |-> [i \in 1..Len(ents) |-> ents[i].logText]]

\* The loop of recomputeAndRender over the array a from place i until it
\* must wait for a fetch or the array ends.  An empty or a plain text is
\* expanded without a fetch.
RECURSIVE RunFrom(_, _, _, _)
RunFrom(a, i, out, trace) ==
  IF i > Len(a) THEN [done |-> TRUE, out |-> out, trace |-> trace]
  ELSE LET e == a[i]
           orig == e.logText
           t == TrimString(orig)
           res == IF t = "" THEN Expanded("") ELSE Expanded(t)
       IN IF t # "" /\ IsUrl(t)
            THEN [done |-> FALSE, i |-> i, e |-> e, orig |-> orig,
                  url |-> RawUrl(t), out |-> out, trace |-> trace]
            ELSE RunFrom(a, i + 1,
                         Append(out, [dx |-> e.dx, dy |-> e.dy,
                                      logText |-> Settle(orig, res)]),
                         Append(trace, [orig |-> orig, res |-> res]))

\* What a run leaves: a finished one calls solve, one that waits joins (or
\* stays in) pending at place k; k = 0 for a new invocation.
AfterRun(r, pend, k, live, arr) ==
  IF r.done
    THEN /\ lastComputed' = solve(r.out)
         /\ solveLog' = [given |-> r.out, trace |-> r.trace]
         /\ pending' = IF k = 0 THEN pend
                       ELSE SubSeq(pend, 1, k - 1) \o SubSeq(pend, k + 1, Len(pend))
    ELSE LET p == [live |-> live, arr |-> arr, i |-> r.i, e |-> r.e,
                   epos |-> IF live THEN r.i ELSE 0, orig |-> r.orig,
                   url |-> r.url, out |-> r.out, trace |-> r.trace]
         IN /\ pending' = IF k = 0 THEN Append(pend, p)
                          ELSE [pend EXCEPT ![k] = p]
            /\ UNCHANGED <<lastComputed, solveLog>>

\* recomputeAndRender called by a handler, model' being set.
recomputeAndRender(pend) ==
  AfterRun(RunFrom(model', 1, << >>, << >>), pend, 0, TRUE, << >>)

\* A slip of pushHistory: the snapshots behind the cursor are kept
\* (history.slice left out).
pushHistoryKeepRedo ==
  /\ history' = Append(history, model')
  /\ historyIndex' = historyIndex + 1

pushHistory ==
  /\ history' = Append(SubSeq(history, 1, historyIndex + 1), model')
  /\ historyIndex' = historyIndex + 1

\* The suspended invocations after model was replaced by another object:
\* those that were live keep the array they iterate.
Detach(pend) ==
  [k \in 1..Len(pend) |->
     IF pend[k].live
       THEN [pend[k] EXCEPT !.live = FALSE, !.arr = model, !.epos = 0]
       ELSE pend[k]]

CanEdit ==
  /\ Len(history) < MaxHistory
  /\ Len(pending) < MaxPending

\* onChange of entry i: field "dx" or "logText" was typed into, the other
\* fields are read back as they stand.
onChange(i, field, v) ==
  /\ CanEdit
  /\ i \in 1..Len(model)
  /\ LET ne == IF field = "dx"
                 THEN [model[i] EXCEPT !.dx = parseIntOr0(v)]
                 ELSE [model[i] EXCEPT !.logText = v]
         pend == [k \in 1..Len(pending) |->
                    IF pending[k].live /\ pending[k].epos = i
                      THEN [pending[k] EXCEPT !.e = ne]
                      ELSE pending[k]]
     IN /\ model' = [model EXCEPT ![i] = ne]
        /\ pushHistory
        /\ recomputeAndRender(pend)
  /\ UNCHANGED <<appVars, resolverVars, keyedVars, ringVars>>

\* The click handler of the remove button of entry i.
removeBtn(i) ==
  /\ CanEdit
  /\ i \in 1..Len(model)
  /\ LET spliced == SubSeq(model, 1, i - 1) \o SubSeq(model, i + 1, Len(model))
         pend == [k \in 1..Len(pending) |->
                    IF ~pending[k].live THEN pending[k]
                    ELSE IF pending[k].epos = i
                      THEN [pending[k] EXCEPT !.epos = 0]
                    ELSE IF pending[k].epos > i
                      THEN [pending[k] EXCEPT !.epos = @ - 1]
                    ELSE pending[k]]
     IN /\ model' = IF spliced = << >> THEN FreshModel ELSE spliced
        /\ pushHistory
        /\ recomputeAndRender(pend)
  /\ UNCHANGED <<appVars, resolverVars, keyedVars, ringVars>>

btnAdd ==
  /\ CanEdit
  /\ Len(model) < MaxAsyncEntries
  /\ model' = Append(model, [dx |-> 0, dy |-> 0, logText |-> ""])
  /\ pushHistory
  /\ recomputeAndRender(pending)
  /\ UNCHANGED <<appVars, resolverVars, keyedVars, ringVars>>

btnReset ==
  /\ CanEdit
  /\ model' = FreshModel
  /\ pushHistory
  /\ recomputeAndRender(Detach(pending))
  /\ UNCHANGED <<appVars, resolverVars, keyedVars, ringVars>>

\* A slip of restoreHistory: the cursor moves, model is left as it is.
restoreHistoryCursorOnly(idx) ==
  /\ Len(pending) < MaxPending
  /\ IF idx < 0 \/ idx >= Len(history)
       THEN UNCHANGED asyncVars
       ELSE /\ model' = model
            /\ historyIndex' = idx
            /\ UNCHANGED history
            /\ recomputeAndRender(Detach(pending))
  /\ UNCHANGED <<appVars, resolverVars, keyedVars, ringVars>>

restoreHistory(idx) ==
  /\ Len(pending) < MaxPending
  /\ IF idx < 0 \/ idx >= Len(history)
       THEN UNCHANGED asyncVars
       ELSE /\ model' = history[idx + 1]
            /\ historyIndex' = idx
            /\ UNCHANGED history
            /\ recomputeAndRender(Detach(pending))
  /\ UNCHANGED <<appVars, resolverVars, keyedVars, ringVars>>

btnUndo == restoreHistory(historyIndex - 1)

btnRedo == restoreHistory(historyIndex + 1)

\* The fetch of the k-th suspended invocation ends, with an ok response or
\* not; the invocation goes on to its next fetch or to solve.
FetchDone(k, ok) ==
  /\ k \in 1..Len(pending)
  /\ LET p == pending[k]
         res == IF ok THEN Expanded(FetchBody(p.url)) ELSE Failed
         out == Append(p.out, [dx |-> p.e.dx, dy |-> p.e.dy,
                               logText |-> Settle(p.orig, res)])
         trace == Append(p.trace, [orig |-> p.orig, res |-> res])
         a == IF p.live THEN model ELSE p.arr
     IN AfterRun(RunFrom(a, p.i + 1, out, trace), pending, k, p.live, p.arr)
  /\ UNCHANGED <<model, history, historyIndex>>
  /\ UNCHANGED <<appVars, resolverVars, keyedVars, ringVars>>

AsyncInputs == { <<"dx", Num(1)>>, <<"dx", NaN>> }
                  \cup {<<"logText", t>> : t \in AsyncTexts}

NextAsync ==
  \/ \E i \in 1..MaxAsyncEntries, c \in AsyncInputs : onChange(i, c[1], c[2])
  \/ \E i \in 1..MaxAsyncEntries : removeBtn(i)
  \/ btnAdd
  \/ btnReset
  \/ btnUndo
  \/ btnRedo
  \/ \E k \in 1..MaxPending, ok \in BOOLEAN : FetchDone(k, ok)

SpecAsync == Init /\ [][NextAsync]_vars

(***************************************************************************)
(* The ring-geometry script of src/unnamed/part_001 (lines 1-805).  Its    *)
(* parser, bestMatchingVein, createVeinInstance, lockVeinAt,               *)
(* incorporateCandidates, bandForAdj and qlColorForNumber are, statement   *)
(* for statement, those of src/app.js and are the operators above; what    *)
(* differs is below: the distance table, the ring candidates, the group    *)
(* key of the rebuild and the steps of an entry, which are the tile the    *)
(* entry was taken at.                                                     *)
(***************************************************************************)
MaxRingEntries == 3
MaxRingVeinId == 4
MaxRingDist == 4

\* A slip of the distance table: slight is the ring next to the source.
ringStrengthToDistanceNear(strengthWord) ==
  IF strengthWord = "" THEN 0
  ELSE IF strengthWord = "indistinct" THEN 5
  ELSE IF strengthWord = "vague" THEN 4
  ELSE IF strengthWord = "minuscule" THEN 3
  ELSE IF strengthWord = "faint" THEN 3
  ELSE 1

\* strengthToDistance of the script: 0 for no strength word.
ringStrengthToDistance(strengthWord) ==
  IF strengthWord = "" THEN 0
  ELSE IF strengthWord = "indistinct" THEN 5
  ELSE IF strengthWord = "vague" THEN 4
  ELSE IF strengthWord = "minuscule" THEN 3
  ELSE IF strengthWord = "faint" THEN 3
  ELSE IF strengthWord = "slight" THEN 2
  ELSE 2

\* Math.sign on integers.
Sign(n) == IF n > 0 THEN 1 ELSE IF n < 0 THEN -1 ELSE 0

\* A slip of octantMatch: an axis the direction leaves at 0 is not tested.
octantMatchLoose(dx, dy, dir) ==
  LET sx == Sign(dx)
      sy == Sign(dy)
  IN IF dir.dx # 0 /\ sx # dir.dx THEN FALSE
     ELSE IF dir.dy # 0 /\ sy # dir.dy THEN FALSE
     ELSE TRUE

octantMatch(dx, dy, dir) ==
  LET sx == Sign(dx)
      sy == Sign(dy)
  IN IF dir.dx = 0 /\ sx # 0 THEN FALSE
     ELSE IF dir.dx # 0 /\ sx # dir.dx THEN FALSE
     ELSE IF dir.dy = 0 /\ sy # 0 THEN FALSE
     ELSE IF dir.dy # 0 /\ sy # dir.dy THEN FALSE
     ELSE TRUE

\* ringCandidates of the script: the two loops over dx and dy in -d..d.
ringCandidatesOctant(source, d, dir) ==
  IF d < 1 \/ dir.type # "dir" THEN {}
  ELSE {coordKey(source.x + o[1], source.y + o[2]) :
          o \in {q \in ((-d)..d) \X ((-d)..d) :
                   /\ Max2(Abs(q[1]), Abs(q[2])) = d
                   /\ octantMatch(q[1], q[2], dir)}}

\* The groups Map of one entry, in insertion order: <<key, candidateSet>>
\* pairs, key = <<ore, qlDisplay>>.
RECURSIVE ringGroupTraces(_, _, _)
ringGroupTraces(source, traces, groups) ==
  IF traces = << >> THEN groups
  ELSE LET t == Head(traces)
           ore == IF t.ore # "" THEN t.ore ELSE "Unknown"
           band == bandForAdj(t.adj)
           qlDisplay == IF band # NoBand THEN band.label ELSE ""
           d == ringStrengthToDistance(t.strengthWord)
           cand == ringCandidatesOctant(source, d, t.dir)
           key == <<ore, qlDisplay>>
           at == {i \in 1..Len(groups) : groups[i][1] = key}
       IN IF d = 0 \/ cand = {} THEN ringGroupTraces(source, Tail(traces), groups)
          ELSE IF at = {}
            THEN ringGroupTraces(source, Tail(traces),
                                 Append(groups, <<key, cand>>))
          ELSE LET i == CHOOSE j \in at : TRUE
               IN ringGroupTraces(source, Tail(traces),
                    [groups EXCEPT ![i] = <<key, setIntersect(@[2], cand)>>])

\* The loop over the groups: the colour is that of the band with the
\* group's label.
RECURSIVE ringIncorporateGroups(_, _)
ringIncorporateGroups(s, groups) ==
  IF groups = << >> THEN s
  ELSE LET key == Head(groups)[1]
           candSet == Head(groups)[2]
           known == {i \in 1..Len(QUALITY_BANDS) :
                       QUALITY_BANDS[i].label = key[2]}
           qlColor == IF known = {} THEN DEFAULT_COLOR
                      ELSE QUALITY_BANDS[CHOOSE i \in known : TRUE].color
       IN IF candSet = {} THEN ringIncorporateGroups(s, Tail(groups))
          ELSE ringIncorporateGroups(
                 incorporateCandidates(s, key[1], key[2], qlColor, candSet),
                 Tail(groups))

\* The body of the loop over state.entries.
ringProcessEntry(s, entry) ==
  LET source == [x |-> entry.stepX, y |-> entry.stepY]
      parsed == entry.parsed
      s1 == IF parsed.mineOre # "" /\ parsed.mineMaxQl.num
              THEN lockVeinAt(s, parsed.mineOre,
                              ToString(parsed.mineMaxQl.val),
                              qlColorForNumber(parsed.mineMaxQl.val),
                              source.x, source.y)
              ELSE s
  IN ringIncorporateGroups(s1, ringGroupTraces(source, parsed.traces, << >>))

RECURSIVE ringRebuildLoop(_, _)
ringRebuildLoop(s, ents) ==
  IF ents = << >> THEN s
  ELSE ringRebuildLoop(ringProcessEntry(s, Head(ents)), Tail(ents))

ringRebuildVeinsFromEntries(ents, nextId) ==
  ringRebuildLoop([veins |-> << >>, nextVeinId |-> nextId], ents)

\* saveState(); render() with state.entries = ents and state.nextVeinId =
\* nextId: the item stored is the state before the rebuild moves the
\* counter.
ringSaveAndRender(ents, nextId) ==
  LET r == ringRebuildVeinsFromEntries(ents, nextId)
  IN /\ ringStored' = saveState(ents, nextId)
     /\ ringVeins' = r.veins
     /\ ringState' = [entries |-> ents, nextVeinId |-> r.nextVeinId]

ringAddEntry(stepX, stepY, text) ==
  /\ Len(ringState.entries) < MaxRingEntries
  /\ ringState.nextVeinId <= MaxRingVeinId
  /\ LET parsed == parseLogBlock(text)
     IN IF ~parsed.ok
          THEN UNCHANGED <<ringState, ringStored, ringVeins>>
          ELSE ringSaveAndRender(
                 Append(ringState.entries,
                        [stepX |-> parseIntSafe(stepX, 0),
                         stepY |-> parseIntSafe(stepY, 0),
                         parsed |-> [mineOre |-> parsed.mineOre,
                                     mineMaxQl |-> parsed.mineMaxQl,
                                     traces |-> parsed.traces],
                         raw |-> text]),
                 ringState.nextVeinId)
  /\ UNCHANGED <<ringQuery, ringOut>>
  /\ UNCHANGED <<appVars, resolverVars, keyedVars, asyncVars>>

ringUndoEntry ==
  /\ ringState.nextVeinId <= MaxRingVeinId
  /\ ringSaveAndRender(PopEntry(ringState.entries), ringState.nextVeinId)
  /\ UNCHANGED <<ringQuery, ringOut>>
  /\ UNCHANGED <<appVars, resolverVars, keyedVars, asyncVars>>

ringResetAll(confirmed) ==
  /\ IF ~confirmed
       THEN UNCHANGED <<ringState, ringStored, ringVeins>>
       ELSE ringSaveAndRender(<< >>, 1)
  /\ UNCHANGED <<ringQuery, ringOut>>
  /\ UNCHANGED <<appVars, resolverVars, keyedVars, asyncVars>>

RTxtEast ==
  << StartLine,
     TraceLine("slight", Desc("good quality", "iron"), <<"east">>) >>

RTxtNorthEast ==
  << StartLine,
     TraceLine("faint", Desc("good quality", "iron"), <<"northeast">>),
     EndLine >>

RTxtNorthOfEast ==
  << StartLine,
     TraceLine("vague", Desc("good quality", "iron"), <<"north", "of", "east">>),
     TraceLine("", Desc("good quality", "iron"), <<"west">>) >>

RTxtMine ==
  << StartLine, MineLine("iron ore"), MaxQlLine(78) >>

RingTexts == {RTxtEast, RTxtNorthEast, RTxtNorthOfEast, RTxtMine, TxtNoStart}

\* The values of the stepX and stepY fields.
RingSteps == { <<Num(0), Num(0)>>, <<Num(1), Num(3)>>, <<NaN, Num(2)>> }

NextRing ==
  \/ \E st \in RingSteps, t \in RingTexts : ringAddEntry(st[1], st[2], t)
  \/ ringUndoEntry
  \/ \E c \in BOOLEAN : ringResetAll(c)

SpecRing == Init /\ [][NextRing]_vars

\* ringCandidates on its own: a source, a distance and a direction vector.
RingDirs == {Dir(dx, dy) : dx \in {-1, 0, 1}, dy \in {-1, 0, 1}}

RingSources == {[x |-> 0, y |-> 0], [x |-> 1, y |-> 3], [x |-> -2, y |-> 1]}

InitRingGeom ==
  /\ entries = << >>
  /\ nextVeinId = 1
  /\ persisted = NoPersisted
  /\ veins = << >>
  /\ pass = << >>
  /\ hist = NoHist("init", << >>)
  /\ rq = Idle
  /\ rout = {}
  /\ KeyedIdle
  /\ AsyncIdle
  /\ ringState = [entries |-> << >>, nextVeinId |-> 1]
  /\ ringStored = NoPersisted
  /\ ringVeins = << >>
  /\ ringQuery \in [src : RingSources, d : 1..MaxRingDist, dir : RingDirs,
                    done : {FALSE}]
  /\ ringOut = {}

RingResolve ==
  /\ ~ringQuery.done
  /\ ringOut' = ringCandidatesOctant(ringQuery.src, ringQuery.d, ringQuery.dir)
  /\ ringQuery' = [ringQuery EXCEPT !.done = TRUE]
  /\ UNCHANGED <<ringState, ringStored, ringVeins>>
  /\ UNCHANGED <<appVars, resolverVars, keyedVars, asyncVars>>

NextRingGeom == RingResolve

SpecRingGeom == InitRingGeom /\ [][NextRingGeom]_vars

(***************************************************************************)
(* wedgeCandidates of src/app.js on its own, for a source, a distance and  *)
(* a direction vector (rq holds them, rout the set returned), and the      *)
(* direction resolver on every phrase "A of B" of two cardinals.           *)
(***************************************************************************)
MaxWedgeDist == 5

InitWedge ==
  /\ entries = << >>
  /\ nextVeinId = 1
  /\ persisted = NoPersisted
  /\ veins = << >>
  /\ pass = << >>
  /\ hist = NoHist("init", << >>)
  /\ rq \in [src : ResolverSources, d : 1..MaxWedgeDist, dir : RingDirs,
             done : {FALSE}]
  /\ rout = {}
  /\ KeyedIdle
  /\ AsyncIdle
  /\ RingIdle

WedgeResolve ==
  /\ ~rq.done
  /\ rq' = [rq EXCEPT !.done = TRUE]
  /\ rout' = wedgeCandidates(rq.src, rq.d, rq.dir)
  /\ UNCHANGED <<appVars, keyedVars, asyncVars, ringVars>>

NextWedge == WedgeResolve

SpecWedge == InitWedge /\ [][NextWedge]_vars

PairPhrases == {<<a, "of", b>> : a \in Cardinals, b \in Cardinals}

InitCompound ==
  /\ entries = << >>
  /\ nextVeinId = 1
  /\ persisted = NoPersisted
  /\ veins = << >>
  /\ pass = << >>
  /\ hist = NoHist("init", << >>)
  /\ rq \in [src : ResolverSources, word : StrengthWords \cup {""},
             phrase : PairPhrases, done : {FALSE}]
  /\ rout = {}
  /\ KeyedIdle
  /\ AsyncIdle
  /\ RingIdle

SpecCompound == InitCompound /\ [][NextResolver]_vars

(***************************************************************************)
(* The parser of src/app.js on its own: a pasted text of up to             *)
(* MaxParseLines non-blank lines, parsed, and the vein list of the entry   *)
(* list that holds this one text, taken at the origin.                     *)
(***************************************************************************)
MaxParseLines == 4

PTraceEast == TraceLine("slight", Desc("good quality", "iron"), <<"east">>)
PTraceUp == TraceLine("slight", Desc("good quality", "iron"), <<"up">>)
PTraceNorth == TraceLine("vague", Desc("normal quality", "iron"), <<"north">>)

ParseAlphabet ==
  {StartLine, EndLine, OtherLine, MineLine("iron ore"), MaxQlLine(78),
   PTraceEast, PTraceUp, PTraceNorth}

ParseTexts ==
  UNION {[1..n -> ParseAlphabet] : n \in 0..MaxParseLines}

\* The session of a text and what render() draws for the entry list that
\* holds it alone.
ParseAndRebuild(text) ==
  LET parsed == parseLogBlock(text)
  IN [parsed |-> parsed,
      veins |-> IF ~parsed.ok THEN << >>
                ELSE rebuildVeinsFromEntries(
                       << NewEntry(<< >>, Num(0), Num(0), text, parsed) >>,
                       1).veins]

InitParse ==
  /\ entries = << >>
  /\ nextVeinId = 1
  /\ persisted = NoPersisted
  /\ veins = << >>
  /\ pass = << >>
  /\ hist = NoHist("init", << >>)
  /\ rq \in [text : ParseTexts, done : {FALSE}]
  /\ rout = {}
  /\ KeyedIdle
  /\ AsyncIdle
  /\ RingIdle

ParseResolve ==
  /\ ~rq.done
  /\ rq' = [rq EXCEPT !.done = TRUE]
  /\ rout' = ParseAndRebuild(rq.text)
  /\ UNCHANGED <<appVars, keyedVars, asyncVars, ringVars>>

NextParse == ParseResolve

SpecParse == InitParse /\ [][NextParse]_vars

(***************************************************************************)
(* Properties.                                                             *)
(***************************************************************************)
\* The consolidated candidate sets of one entry, in the order the groups
\* Map holds them.
EntryGroups(e) == GroupTraces([x |-> e.x, y |-> e.y], e.parsed.traces, << >>)

\* The vein list before entry k of the last rebuild pass.
PassBefore(k) == IF k = 1 THEN << >> ELSE pass[k - 1]

InstancesOf(list, ore, qlDisplay) ==
  SelectSeq(list, LAMBDA v : v.ore = ore /\ v.qlDisplay = qlDisplay)

\* C1: monotonic narrowing.  In the last rebuild pass every instance that
\* exists after entry k-1 still exists after entry k, at the same place of
\* the list, and its feasible set after entry k is a subset of its feasible
\* set after entry k-1.
C1_MonotonicNarrowing ==
  \A k \in 2..Len(pass) : \A j \in 1..Len(pass[k - 1]) :
     /\ j <= Len(pass[k])
     /\ pass[k][j].id = pass[k - 1][j].id
     /\ pass[k][j].feasible \subseteq pass[k - 1][j].feasible

\* An entry has strictly narrowed an instance created by an earlier entry.
C1_Witness ==
  \E k \in 2..Len(pass) : \E j \in 1..Len(pass[k - 1]) :
     /\ pass[k][j].feasible # pass[k - 1][j].feasible
     /\ pass[k][j].feasible \subseteq pass[k - 1][j].feasible

\* C2: lock stability.  An instance that is locked after entry k-1 of the
\* pass is, after entry k, still locked, with the same lockedCoord and the
\* same one-tile feasible set.
C2_LockStability ==
  \A k \in 2..Len(pass) : \A j \in 1..Len(pass[k - 1]) :
     pass[k - 1][j].locked =>
        /\ j <= Len(pass[k])
        /\ pass[k][j].locked
        /\ pass[k][j].lockedCoord = pass[k - 1][j].lockedCoord
        /\ pass[k][j].feasible = pass[k - 1][j].feasible
        /\ Cardinality(pass[k][j].feasible) = 1

\* An instance locked by narrowing is met by a later entry whose candidate
\* set for the same group contains the locked tile.
C2_Witness ==
  \E k \in 2..Len(pass) : \E j \in 1..Len(pass[k - 1]) :
     /\ pass[k - 1][j].locked
     /\ \E i \in 1..Len(EntryGroups(entries[k])) :
          LET g == EntryGroups(entries[k])[i]
          IN /\ g[1][1] = pass[k - 1][j].ore
             /\ g[1][2] = pass[k - 1][j].qlDisplay
             /\ pass[k - 1][j].feasible \subseteq g[2]

\* C3: lock invariant.  Every instance of the rebuilt list is locked
\* exactly when its feasible set has one tile, and then lockedCoord is
\* that tile.
C3_LockInvariant ==
  \A i \in 1..Len(veins) :
     /\ veins[i].locked <=> Cardinality(veins[i].feasible) = 1
     /\ veins[i].locked =>
          /\ veins[i].lockedCoord # NullCoord
          /\ veins[i].feasible =
               {coordKey(veins[i].lockedCoord.x, veins[i].lockedCoord.y)}

\* The list holds an instance locked by narrowing its trace candidates and
\* an unlocked instance created by incorporateCandidates.
C3_Witness ==
  /\ \E i \in 1..Len(veins) : veins[i].locked /\ veins[i].qlDisplay = "60-79"
  /\ \E i \in 1..Len(veins) : ~veins[i].locked

\* C4: idempotence of the rebuild.  Calling rebuildVeinsFromEntries again on
\* the same state.entries yields the list the last render computed, ids
\* included.
C4_RebuildIdempotent ==
  rebuildVeinsFromEntries(entries, nextVeinId).veins = veins

\* C5: round trip on deletion.  After undoEntry followed by addEntry with
\* the step and the text of the entry undone, the entry list has the
\* positions and parsed sessions it had before the undo and the rebuilt
\* vein list is, ids apart, the list before the undo.
C5_UndoReAdd ==
  hist.op = "readd" =>
     /\ Len(entries) = Len(hist.before)
     /\ \A i \in 1..Len(entries) :
          /\ entries[i].x = hist.before[i].x
          /\ entries[i].y = hist.before[i].y
          /\ entries[i].parsed = hist.before[i].parsed
     /\ StripIds(veins) = StripIds(hist.beforeVeins)

\* The second of two entries was undone and added again.
C5_Witness ==
  /\ hist.op = "readd"
  /\ Len(entries) >= 2
  /\ veins # << >>

\* C6: no overlap means a new instance.  When entry k is the first to carry
\* a group and entry k+1 carries the same group with a consolidated
\* candidate set that shares no tile with that of entry k, the list after
\* entry k+1 holds exactly two instances of the group, with those two
\* candidate sets; and no instance of the rebuilt list is empty.
C6_NoOverlapNewInstance ==
  /\ \A i \in 1..Len(veins) : veins[i].feasible # {}
  /\ \A k \in 1..(Len(entries) - 1) :
       \A a \in 1..Len(EntryGroups(entries[k])) :
         \A b \in 1..Len(EntryGroups(entries[k + 1])) :
           LET g1 == EntryGroups(entries[k])[a]
               g2 == EntryGroups(entries[k + 1])[b]
           IN ( /\ g1[1] = g2[1]
                /\ g1[2] # {} /\ g2[2] # {}
                /\ g1[2] \cap g2[2] = {}
                /\ InstancesOf(PassBefore(k), g1[1][1], g1[1][2]) = << >> )
              => LET inst == InstancesOf(pass[k + 1], g1[1][1], g1[1][2])
                 IN /\ Len(inst) = 2
                    /\ inst[1].feasible = g1[2]
                    /\ inst[2].feasible = g2[2]

\* Two consecutive entries carry disjoint candidate sets of one group.
C6_Witness ==
  \E k \in 1..(Len(entries) - 1) :
    \E a \in 1..Len(EntryGroups(entries[k])) :
      \E b \in 1..Len(EntryGroups(entries[k + 1])) :
        LET g1 == EntryGroups(entries[k])[a]
            g2 == EntryGroups(entries[k + 1])[b]
        IN /\ g1[1] = g2[1]
           /\ g1[2] # {} /\ g2[2] # {}
           /\ g1[2] \cap g2[2] = {}
           /\ InstancesOf(PassBefore(k), g1[1][1], g1[1][2]) = << >>
           /\ Len(InstancesOf(veins, g1[1][1], g1[1][2])) >= 2

\* The east/west scenario: entry 1 at (0,0) with one slight east trace of
\* normal quality iron, entry 2 at (5,0) with one slight west trace of it.
IsTrace(t, word, adj, ore, dir) ==
  t.strengthWord = word /\ t.adj = adj /\ t.ore = ore /\ t.dir = dir

EastWestScenario ==
  /\ Len(entries) = 2
  /\ entries[1].x = 0 /\ entries[1].y = 0
  /\ entries[2].x = 5 /\ entries[2].y = 0
  /\ \A i \in 1..2 : entries[i].parsed.mineOre = ""
                     /\ Len(entries[i].parsed.traces) = 1
  /\ IsTrace(entries[1].parsed.traces[1], "slight", "normal", "iron", Dir(1, 0))
  /\ IsTrace(entries[2].parsed.traces[1], "slight", "normal", "iron", Dir(-1, 0))

\* C7 as stated: in the east/west scenario there is a single iron vein whose
\* feasible set is non-empty and holds only tiles of the line between the
\* reference tiles (y = 0, 0 < x < 5), locked if it has one tile.
C7_OnTheLine ==
  EastWestScenario =>
     /\ Len(veins) = 1
     /\ veins[1].ore = "iron"
     /\ veins[1].feasible # {}
     /\ \A t \in veins[1].feasible : t[2] = 0 /\ 0 < t[1] /\ t[1] < 5
     /\ Cardinality(veins[1].feasible) = 1 => veins[1].locked

\* C7 amended: in the east/west scenario there is a single iron vein whose
\* feasible set is the strip between the reference tiles with the lateral
\* spread of the wedge, 0 < x < 5 and -6 <= y <= 6 (it holds the tiles of the
\* line between them); the vein is locked exactly if that set has one tile.
C7_InTheStrip ==
  EastWestScenario =>
     /\ Len(veins) = 1
     /\ veins[1].ore = "iron"
     /\ veins[1].qlDisplay = "40-59"
     /\ veins[1].feasible = {coordKey(x, y) : x \in 1..4, y \in (-6)..6}
     /\ veins[1].locked <=> Cardinality(veins[1].feasible) = 1

C7_Witness == EastWestScenario /\ Len(veins) = 1

\* C8: direction resolver totality.  For every strength word of the
\* vocabulary and every one of the 8 canonical directions the candidate set
\* is non-empty (at the origin and at every other source).
C8_ResolverTotal ==
  (rq.done /\ rq.word \in StrengthWords /\ rq.phrase \in CanonicalPhrases)
     => rout # {}

\* The farthest ring of a diagonal has been resolved at the origin.
C8_Witness ==
  /\ rq.done
  /\ rq.src = Origin
  /\ rq.word = "indistinct"
  /\ rq.phrase = <<"southwest">>
  /\ rout # {}

\* The label of the band a numeric quality falls in.
DerivedBandLabel(q) ==
  QUALITY_BANDS[CHOOSE i \in 1..Len(QUALITY_BANDS) :
                  QUALITY_BANDS[i].color = qlColorForNumber(q)].label

\* C9: mining-context lock-or-create by derived band.  When entry k at tile
\* t carries a mining context (o, q) and the list before it holds an
\* instance of ore o whose quality group is the band derived from q and
\* whose feasible set contains t, the first such instance is collapsed to
\* {t} and locked, and the entry adds no instance of ore o at t.
C9_MiningLocksBandInstance ==
  \A k \in 1..Len(entries) :
    LET e == entries[k]
        t == coordKey(e.x, e.y)
        prev == PassBefore(k)
        hits == {j \in 1..Len(prev) :
                   /\ prev[j].ore = e.parsed.mineOre
                   /\ prev[j].qlDisplay = DerivedBandLabel(e.parsed.mineMaxQl.val)
                   /\ t \in prev[j].feasible}
    IN (e.parsed.mineOre # "" /\ e.parsed.mineMaxQl.num /\ hits # {})
       => LET j == CHOOSE h \in hits : \A g \in hits : h <= g
          IN /\ pass[k][j].locked
             /\ pass[k][j].feasible = {t}
             /\ \A i \in (Len(prev) + 1)..Len(pass[k]) :
                  ~(pass[k][i].ore = e.parsed.mineOre /\ pass[k][i].feasible = {t})

\* The texts addEntry accepts, read off the text itself: some line is not
\* blank and some line holds a start trigger.
Acceptable(text) ==
  /\ \E i \in 1..Len(text) : ~text[i].blank
  /\ \E i \in 1..Len(text) : text[i].start

\* C10: parse failure rejects the whole submission.  A step of addEntry
\* appends exactly one entry if the text is non-empty and holds a start
\* trigger line; otherwise the entry list (and so the current position), the
\* persisted state and the id counter stay as they were.
C10_RejectWhole ==
  [][ hist'.op \in {"add", "readd", "reject"} =>
        IF Acceptable(hist'.text)
          THEN /\ Len(entries') = Len(entries) + 1
               /\ SubSeq(entries', 1, Len(entries)) = entries
               /\ persisted'.entries = entries'
          ELSE /\ entries' = entries
               /\ currentPosition(entries') = currentPosition(entries)
               /\ persisted' = persisted
               /\ nextVeinId' = nextVeinId ]_vars

\* A text without a start trigger was rejected while entries were stored.
C10_Witness ==
  /\ hist.op = "reject"
  /\ hist.text = TxtNoStart
  /\ entries # << >>
  /\ persisted.entries = entries

\* The strength words from the weakest signal to the strongest wording, as
\* the table of strengthToDistance lists them.
StrengthOrder == <<"slight", "faint", "minuscule", "vague", "indistinct">>

\* C19: the strength table is monotonic and total.  For the strength word of
\* the trace being resolved, the missing word included, strengthToDistance is
\* an integer >= 1; along slight, faint, minuscule, vague, indistinct the
\* distance never decreases, slight has the smallest distance and indistinct
\* the largest, and the missing word gets a distance within that range.
C19_StrengthTable ==
  rq.done =>
     LET d == strengthToDistance(rq.word)
     IN /\ d \in Nat /\ d >= 1
        /\ strengthToDistance("slight") <= d
        /\ d <= strengthToDistance("indistinct")
        /\ \A i \in 1..Len(StrengthOrder) : \A j \in i..Len(StrengthOrder) :
             (rq.word = StrengthOrder[j])
                => strengthToDistance(StrengthOrder[i]) <= d

\* A trace without a strength word has been resolved, to the wedge of its
\* distance.
C19_Witness ==
  /\ rq.done
  /\ rq.word = ""
  /\ rq.phrase = <<"east">>
  /\ Cardinality(rout) = strengthToDistance("") * (2 * strengthToDistance("") + 1)

\* state.nextVeinId before entry k of the last rebuild pass: every instance
\* of the pass took one id.
NextIdBefore(k) == nextVeinId - Len(veins) + Len(PassBefore(k))

\* From the list before to the list after, one observation of the group
\* (ore, qlDisplay) has left every instance of another group as it was, has
\* changed no instance's ore or quality label, and has added instances of
\* its own group only.
OnlyGroupTouched(before, after, ore, qlDisplay) ==
  /\ Len(after) >= Len(before)
  /\ \A j \in 1..Len(before) :
       /\ after[j].ore = before[j].ore
       /\ after[j].qlDisplay = before[j].qlDisplay
       /\ (before[j].ore # ore \/ before[j].qlDisplay # qlDisplay)
            => /\ after[j].feasible = before[j].feasible
               /\ after[j].locked = before[j].locked
               /\ after[j].lockedCoord = before[j].lockedCoord
  /\ \A j \in (Len(before) + 1)..Len(after) :
       after[j].ore = ore /\ after[j].qlDisplay = qlDisplay

\* OnlyGroupTouched for each group of an entry in turn, from the solver
\* state s; the last state is the one the entry ends with.
RECURSIVE GroupsKeepOthers(_, _, _)
GroupsKeepOthers(s, groups, last) ==
  IF groups = << >> THEN s.veins = last
  ELSE LET key == Head(groups)[1]
           s1 == incorporateCandidates(s, key[1], key[2], key[3],
                                       Head(groups)[2])
       IN /\ OnlyGroupTouched(s.veins, s1.veins, key[1], key[2])
          /\ GroupsKeepOthers(s1, Tail(groups), last)

\* C13: quality groups are never conflated.  In the last rebuild pass, each
\* observation of each entry (the mining context, then each consolidated
\* trace group, keyed ore||qlDisplay||qlColor) leaves the feasible set, the
\* locked flag and the lockedCoord of every instance of another (ore,
\* quality label) as they were; no instance changes its ore or its quality
\* label; an instance an observation creates has the observation's group.
C13_GroupsNotConflated ==
  \A k \in 1..Len(entries) :
    LET e == entries[k]
        s0 == [veins |-> PassBefore(k), nextVeinId |-> NextIdBefore(k)]
        mining == e.parsed.mineOre # "" /\ e.parsed.mineMaxQl.num
        s1 == IF mining
                THEN lockVeinAt(s0, e.parsed.mineOre,
                                ToString(e.parsed.mineMaxQl.val),
                                qlColorForNumber(e.parsed.mineMaxQl.val),
                                e.x, e.y)
                ELSE s0
    IN /\ mining => OnlyGroupTouched(s0.veins, s1.veins, e.parsed.mineOre,
                                     ToString(e.parsed.mineMaxQl.val))
       /\ GroupsKeepOthers(s1, EntryGroups(e), pass[k])

\* An entry carries a trace group whose candidate set shares tiles with an
\* instance of the same ore in another quality group, and has narrowed or
\* created an instance of its own group.
C13_Witness ==
  \E k \in 2..Len(entries) :
    \E i \in 1..Len(EntryGroups(entries[k])) :
      \E j \in 1..Len(PassBefore(k)) :
        LET g == EntryGroups(entries[k])[i]
            v == PassBefore(k)[j]
        IN /\ v.ore = g[1][1]
           /\ v.qlDisplay # g[1][2]
           /\ v.feasible \cap g[2] # {}
           /\ pass[k][j] = v
           /\ pass[k] # PassBefore(k)

\* C15: undo restores the previous solver output.  When undoEntry runs right
\* after a successful addEntry, state.entries is the list the add started
\* from and the rebuilt vein list is, ids apart, the vein list the add
\* started from; undoEntry on an empty entry list leaves the entry list and
\* the vein list empty.
C15_UndoRestores ==
  /\ (hist.op = "undo" /\ hist.n = 1)
       => /\ entries = hist.prior
          /\ StripIds(veins) = hist.priorVeins
  /\ (hist.op = "undo" /\ hist.before = << >>)
       => /\ entries = << >>
          /\ veins = << >>

\* An entry added to a list with veins, one of them narrowed by it, was
\* undone.
C15_Witness ==
  /\ hist.op = "undo"
  /\ hist.n = 1
  /\ hist.prior # << >>
  /\ hist.priorVeins # << >>
  /\ StripIds(hist.beforeVeins) # hist.priorVeins
  /\ Len(hist.beforeVeins) = Len(hist.priorVeins)

\* C16: reset.  A confirmed resetAll, from any state, leaves state.entries
\* empty, nextVeinId 1, the rebuilt vein list empty, the stored state empty
\* and the current position (0,0), and the entry added next stands at its
\* own step from (0,0); a declined confirmation leaves the entries, the id
\* counter, the stored state and the vein list as they were.
C16_Reset ==
  [][ /\ hist'.op = "reset"
         => /\ entries' = << >>
            /\ nextVeinId' = 1
            /\ veins' = << >>
            /\ persisted' = saveState(<< >>, 1)
            /\ currentPosition(entries') = Origin
      /\ (hist.op = "reset" /\ hist'.op = "add")
         => /\ Len(entries') = 1
            /\ entries'[1].x = entries'[1].dx
            /\ entries'[1].y = entries'[1].dy
      /\ hist'.op = "decline"
         => UNCHANGED <<entries, nextVeinId, persisted, veins, pass>>
    ]_vars

\* A list of entries with veins drawn was reset.
C16_Witness ==
  /\ hist.op = "reset"
  /\ hist.n >= 2
  /\ entries = << >>
  /\ nextVeinId = 1

\* The mining-line texts of the vocabulary that contain "shards".
FillerNames == {"stone shards", "shards", "rock shards"}

\* The mining-context lines of a stored text, and those naming a filler.
MineLines(raw) == {i \in 1..Len(raw) : raw[i].mine # ""}

FillerSession(raw) ==
  /\ MineLines(raw) # {}
  /\ \A i \in MineLines(raw) : raw[i].mine \in FillerNames

\* C11: bulk filler is never a vein.  An entry whose mining-context lines
\* name a filler material has no mining ore in its session, though the
\* max-quality line that follows is read; processing the entry changes the
\* vein list by its trace groups only, so that the mining context creates
\* no instance and locks none, and an entry without traces leaves the list
\* as it was.
C11_FillerNeverVein ==
  \A k \in 1..Len(entries) :
    LET e == entries[k]
        s0 == [veins |-> PassBefore(k), nextVeinId |-> NextIdBefore(k)]
    IN FillerSession(e.raw)
       => /\ e.parsed.mineOre = ""
          /\ pass[k] = IncorporateGroups(s0, EntryGroups(e)).veins
          /\ e.parsed.traces = << >> => pass[k] = PassBefore(k)
          /\ \A j \in 1..Len(pass[k]) :
               (pass[k][j].locked /\ pass[k][j].feasible = {coordKey(e.x, e.y)})
                  => (j <= Len(PassBefore(k)) /\ PassBefore(k)[j] = pass[k][j])

\* A filler session with a max-quality line was added on a tile that lies
\* in the feasible set of an unlocked instance, and another one with a
\* trace has created an instance.
C11_Witness ==
  /\ \E k \in 2..Len(entries) :
       /\ FillerSession(entries[k].raw)
       /\ entries[k].parsed.mineMaxQl.num
       /\ entries[k].parsed.traces = << >>
       /\ \E j \in 1..Len(pass[k]) :
            coordKey(entries[k].x, entries[k].y) \in pass[k][j].feasible
            /\ ~pass[k][j].locked
  /\ \E k \in 1..Len(entries) :
       /\ FillerSession(entries[k].raw)
       /\ entries[k].parsed.traces # << >>
       /\ Len(pass[k]) > Len(PassBefore(k))

\* The number of tiles a feasible set shares with a candidate set.
Overlap(feasible, candidateSet) == Cardinality(feasible \cap candidateSet)

\* What C12 asks of the answer m (an index into the list, 0 for no match)
\* to the question (list, ore, qlDisplay, candidateSet).
IsBestMatch(list, ore, qlDisplay, candidateSet, m) ==
  LET same == {i \in 1..Len(list) :
                 list[i].ore = ore /\ list[i].qlDisplay = qlDisplay}
  IN IF \A i \in same : Overlap(list[i].feasible, candidateSet) = 0
       THEN m = 0
       ELSE /\ m \in same
            /\ Overlap(list[m].feasible, candidateSet) >= 1
            /\ \A i \in same : Overlap(list[i].feasible, candidateSet)
                                 <= Overlap(list[m].feasible, candidateSet)
            /\ \A i \in same :
                 (Overlap(list[i].feasible, candidateSet)
                    = Overlap(list[m].feasible, candidateSet)) => m <= i

\* IsBestMatch for the call of bestMatchingVein each group of an entry
\* makes, from the solver state s.
RECURSIVE GroupsMatchBest(_, _)
GroupsMatchBest(s, groups) ==
  IF groups = << >> THEN TRUE
  ELSE LET key == Head(groups)[1]
           cand == Head(groups)[2]
       IN IF cand = {} THEN GroupsMatchBest(s, Tail(groups))
          ELSE /\ IsBestMatch(s.veins, key[1], key[2], cand,
                              bestMatchingVein(s.veins, key[1], key[2], cand))
               /\ GroupsMatchBest(
                    incorporateCandidates(s, key[1], key[2], key[3], cand),
                    Tail(groups))

\* The solver state of the last rebuild pass when the trace groups of
\* entry k are reached.
StateAtGroups(k) ==
  LET e == entries[k]
      s0 == [veins |-> PassBefore(k), nextVeinId |-> NextIdBefore(k)]
  IN IF e.parsed.mineOre # "" /\ e.parsed.mineMaxQl.num
       THEN lockVeinAt(s0, e.parsed.mineOre, ToString(e.parsed.mineMaxQl.val),
                       qlColorForNumber(e.parsed.mineMaxQl.val), e.x, e.y)
       ELSE s0

\* C12: best-overlap matching.  In every call the rebuild makes,
\* bestMatchingVein returns an instance of the same ore and quality label
\* whose feasible set shares the largest number of tiles with the candidate
\* set, that number being at least 1, the earliest of the list among those
\* that tie; it returns no match when every such overlap is 0.
C12_BestOverlap ==
  \A k \in 1..Len(entries) :
     GroupsMatchBest(StateAtGroups(k), EntryGroups(entries[k]))

\* Two instances of one group, then an entry whose candidate set shares
\* tiles with both, more with the second than with the first, and narrows
\* the second.
C12_WitnessLater ==
  /\ Len(entries) = 3
  /\ Len(pass[2]) = 2
  /\ pass[2][1].ore = pass[2][2].ore
  /\ pass[2][1].qlDisplay = pass[2][2].qlDisplay
  /\ \E i \in 1..Len(EntryGroups(entries[3])) :
       LET g == EntryGroups(entries[3])[i]
       IN /\ g[1][1] = pass[2][1].ore /\ g[1][2] = pass[2][1].qlDisplay
          /\ 0 < Overlap(pass[2][1].feasible, g[2])
          /\ Overlap(pass[2][1].feasible, g[2]) < Overlap(pass[2][2].feasible, g[2])
          /\ pass[3][1] = pass[2][1]
          /\ pass[3][2].feasible = pass[2][2].feasible \cap g[2]

\* The group key and the candidate set of one trace.
TraceKey(t) ==
  LET band == bandForAdj(t.adj)
  IN << IF t.ore # "" THEN t.ore ELSE "Unknown",
        IF band # NoBand THEN band.label ELSE "",
        IF band # NoBand THEN band.color ELSE DEFAULT_COLOR >>

TraceCand(source, t) ==
  wedgeCandidates(source, strengthToDistance(t.strengthWord), t.dir)

\* The tiles of acc that every trace of the group key from the i-th on has
\* in its candidate set.
RECURSIVE CommonTiles(_, _, _, _, _)
CommonTiles(source, traces, key, i, acc) ==
  IF i > Len(traces) THEN acc
  ELSE IF TraceKey(traces[i]) # key
    THEN CommonTiles(source, traces, key, i + 1, acc)
  ELSE LET c == TraceCand(source, traces[i])
       IN CommonTiles(source, traces, key, i + 1, acc \cap c)

\* The tiles every trace of the group key has in its candidate set.
Consolidated(source, traces, key) ==
  LET idx == {i \in 1..Len(traces) : TraceKey(traces[i]) = key}
      first == CHOOSE i \in idx : \A j \in idx : i <= j
  IN CommonTiles(source, traces, key, first + 1,
                 TraceCand(source, traces[first]))

\* One incorporateCandidates per group, at the place of the group's first
\* trace, with the consolidated set; with skipEmpty, none for a group whose
\* consolidated set is empty.
RECURSIVE OncePerGroup(_, _, _, _, _)
OncePerGroup(s, source, traces, i, skipEmpty) ==
  IF i > Len(traces) THEN s
  ELSE LET key == TraceKey(traces[i])
           c == Consolidated(source, traces, key)
       IN IF \E j \in 1..(i - 1) : TraceKey(traces[j]) = key
            THEN OncePerGroup(s, source, traces, i + 1, skipEmpty)
          ELSE IF skipEmpty /\ c = {}
            THEN OncePerGroup(s, source, traces, i + 1, skipEmpty)
          ELSE OncePerGroup(incorporateCandidates(s, key[1], key[2], key[3], c),
                            source, traces, i + 1, skipEmpty)

\* An entry with two of its traces exchanged.
SwapTraces(e, i, j) ==
  [e EXCEPT !.parsed.traces =
     [@ EXCEPT ![i] = e.parsed.traces[j], ![j] = e.parsed.traces[i]]]

\* Exchanging two traces of one group of entry k changes nothing in the
\* list the entry ends with.
OrderIndependent(k) ==
  LET e == entries[k]
      s0 == [veins |-> PassBefore(k), nextVeinId |-> NextIdBefore(k)]
  IN \A i \in 1..Len(e.parsed.traces) : \A j \in (i + 1)..Len(e.parsed.traces) :
       TraceKey(e.parsed.traces[i]) = TraceKey(e.parsed.traces[j])
          => ProcessEntry(s0, SwapTraces(e, i, j)).veins = pass[k]

KeysOfEntry(e) ==
  LET parsed == parseLog(e.text)
  IN {veinKey(parsed.exact[i].ore, parsed.exact[i].qbin) :
        i \in 1..Len(parsed.exact)}
     \cup {veinKey(parsed.directional[i].ore, parsed.directional[i].qbin) :
             i \in 1..Len(parsed.directional)}

\* C18: the locking promise of the README in the keyed solver.  In a
\* rebuildAll the locked map after the first k entries is the one a replay
\* of those k entries alone ends with, and a key it locks at a tile is
\* locked at the same tile after every longer prefix and in the state the
\* rebuild leaves.
C18_KeyedLockStays ==
  /\ Len(trail.locks) = Len(state.entries)
  /\ \A k \in 1..Len(trail.locks) :
       /\ trail.locks[k]
            = rebuildAll(SubSeq(state.entries, 1, k)).state.locked
       /\ \A key \in DOMAIN trail.locks[k] :
            /\ \A j \in k..Len(trail.locks) :
                 /\ key \in DOMAIN trail.locks[j]
                 /\ trail.locks[j][key] = trail.locks[k][key]
            /\ key \in DOMAIN state.locked
            /\ state.locked[key] = trail.locks[k][key]

\* A key was locked by the second entry, by narrowing two tiles to one, and
\* the third entry, at another tile, has an exact line for that key.
C18_Witness ==
  /\ Len(state.entries) = 3
  /\ \E key \in DOMAIN trail.locks[2] \ DOMAIN trail.locks[1] :
       LET parsed == parseLog(state.entries[3].text)
       IN /\ \E i \in 1..Len(parsed.exact) :
               veinKey(parsed.exact[i].ore, parsed.exact[i].qbin) = key
          /\ key \in KeysOfEntry(state.entries[1])
          /\ <<state.entries[3].x, state.entries[3].y>> # trail.locks[2][key]
          /\ state.locked[key] = trail.locks[2][key]

\* The text of a solver entry is what its expansion came to: the expanded
\* text (the body fetched for a link, the trimmed text otherwise) when the
\* expansion succeeded, the text read from the entry when it failed.
SettledText(g, tr) ==
  /\ tr.res.ok => g.logText = tr.res.text
  /\ ~tr.res.ok => g.logText = tr.orig
  /\ IsUrl(TrimString(tr.orig))
       => (tr.res.ok => tr.res.text = FetchBody(RawUrl(TrimString(tr.orig))))
  /\ ~IsUrl(TrimString(tr.orig))
       => (tr.res.ok /\ tr.res.text = TrimString(tr.orig))

\* C20: link expansion completes before parsing.  Every entry of the
\* argument of the last call of solve has an expansion that completed or
\* failed before the call, and its text is the expanded text when the
\* expansion succeeded and the entry's original text when it failed;
\* lastComputed is solve of that argument, whose texts are the ones parsed;
\* an invocation still waiting for a fetch has called solve for none of its
\* entries and has settled each entry it collected.
C20_ExpandBeforeParse ==
  /\ Len(solveLog.given) = Len(solveLog.trace)
  /\ \A j \in 1..Len(solveLog.given) :
       SettledText(solveLog.given[j], solveLog.trace[j])
  /\ lastComputed = solve(solveLog.given)
  /\ \A j \in 1..Len(solveLog.given) :
       lastComputed.texts[j] = solveLog.given[j].logText
  /\ \A k \in 1..Len(pending) :
       /\ Len(pending[k].out) = Len(pending[k].trace)
       /\ Len(pending[k].out) < pending[k].i
       /\ \A j \in 1..Len(pending[k].out) :
            SettledText(pending[k].out[j], pending[k].trace[j])

\* solve was called with two entries, the link of the first fetched and the
\* fetch of the second failed.
C20_Witness ==
  /\ Len(solveLog.given) = 2
  /\ solveLog.trace[1].orig = UrlText
  /\ solveLog.trace[1].res.ok
  /\ solveLog.given[1].logText = "log B"
  /\ solveLog.trace[2].orig = UrlText
  /\ ~solveLog.trace[2].res.ok
  /\ solveLog.given[2].logText = UrlText

\* The texts the expansion of an entry text can come to: the fetched body or,
\* the fetch failing, the text itself for a link; the trimmed text otherwise.
SettledOutcomes(text) ==
  IF IsUrl(TrimString(text))
    THEN {FetchBody(RawUrl(TrimString(text))), text}
    ELSE {TrimString(text)}

\* C21: no stale result of the asynchronous recompute.  Once no invocation
\* of recomputeAndRender is waiting for a fetch any more, lastComputed is
\* solve applied to the current model.entries: it has one player position and
\* one text per current entry, the positions are those accumulated from the
\* current steps, and every text is what the expansion of the current text
\* of that entry can come to.
C21_NoStaleResult ==
  pending = << >> =>
    /\ Len(lastComputed.texts) = Len(model)
    /\ lastComputed.playerPos = solve(model).playerPos
    /\ \A j \in 1..Len(model) :
         lastComputed.texts[j] \in SettledOutcomes(model[j].logText)

\* The places in list of the instances of the group (ore, qlDisplay) that
\* are locked, or not, and share a tile with the candidate set.
LockedHits(list, ore, qlDisplay, candidateSet) ==
  {i \in 1..Len(list) :
     /\ list[i].ore = ore /\ list[i].qlDisplay = qlDisplay
     /\ list[i].locked
     /\ list[i].feasible \cap candidateSet # {}}

UnlockedHits(list, ore, qlDisplay, candidateSet) ==
  {i \in 1..Len(list) :
     /\ list[i].ore = ore /\ list[i].qlDisplay = qlDisplay
     /\ ~list[i].locked
     /\ list[i].feasible \cap candidateSet # {}}

\* For each group of an entry in turn, from the solver state s: when the
\* candidate set shares a tile with a locked and with an unlocked instance
\* of the group, the instance narrowed is an unlocked one.
RECURSIVE GroupsSkipLocked(_, _)
GroupsSkipLocked(s, groups) ==
  IF groups = << >> THEN TRUE
  ELSE LET key == Head(groups)[1]
           cand == Head(groups)[2]
           m == bestMatchingVein(s.veins, key[1], key[2], cand)
           s1 == incorporateCandidates(s, key[1], key[2], key[3], cand)
       IN IF cand = {} THEN GroupsSkipLocked(s, Tail(groups))
          ELSE /\ (/\ LockedHits(s.veins, key[1], key[2], cand) # {}
                   /\ UnlockedHits(s.veins, key[1], key[2], cand) # {})
                    => /\ m \in UnlockedHits(s.veins, key[1], key[2], cand)
                       /\ s1.veins[m].feasible
                            = s.veins[m].feasible \cap cand
               /\ GroupsSkipLocked(s1, Tail(groups))

\* C22: locked instances are excluded from matching.  In every call the
\* rebuild makes, when the consolidated candidate set of a group shares a
\* tile with a locked instance of the group (its locked tile) and with an
\* unlocked instance of the group, the instance whose feasible set is
\* intersected with the candidate set is an unlocked one, wherever the two
\* stand in the vein list.
C22_LockedExcluded ==
  \A k \in 1..Len(entries) :
     GroupsSkipLocked(StateAtGroups(k), EntryGroups(entries[k]))

\* What C23 asks of one incorporation, from the list before to the list
\* after, for the candidate set cand of the group (ore, qlDisplay).
AbsorbedOrElsewhere(before, after, ore, qlDisplay, cand) ==
  LET lockedHits == LockedHits(before, ore, qlDisplay, cand)
      unlockedHits == UnlockedHits(before, ore, qlDisplay, cand)
      lockedAll == {i \in 1..Len(before) :
                      /\ before[i].ore = ore /\ before[i].qlDisplay = qlDisplay
                      /\ before[i].locked}
  IN /\ (lockedHits # {} /\ unlockedHits = {}) => after = before
     /\ \A i \in lockedAll \ lockedHits :
          /\ Len(after) >= i
          /\ after[i] = before[i]
     /\ (lockedAll # {} /\ lockedHits = {}) =>
          \/ \E m \in unlockedHits :
               /\ Len(after) = Len(before)
               /\ after[m].feasible = before[m].feasible \cap cand
               /\ \A j \in 1..Len(before) : j # m => after[j] = before[j]
          \/ /\ unlockedHits = {}
             /\ Len(after) = Len(before) + 1
             /\ SubSeq(after, 1, Len(before)) = before
             /\ after[Len(after)].feasible = cand
             /\ after[Len(after)].ore = ore
             /\ after[Len(after)].qlDisplay = qlDisplay
             /\ ~after[Len(after)].locked

RECURSIVE GroupsAbsorbed(_, _)
GroupsAbsorbed(s, groups) ==
  IF groups = << >> THEN TRUE
  ELSE LET key == Head(groups)[1]
           cand == Head(groups)[2]
           s1 == incorporateCandidates(s, key[1], key[2], key[3], cand)
       IN IF cand = {} THEN GroupsAbsorbed(s, Tail(groups))
          ELSE /\ AbsorbedOrElsewhere(s.veins, s1.veins, key[1], key[2], cand)
               /\ GroupsAbsorbed(s1, Tail(groups))

\* C23: absorption by a locked instance.  In every incorporation the rebuild
\* makes: when the consolidated candidate set of a group holds the locked
\* tile of a locked instance of the group and shares no tile with another
\* instance of the group, the vein list after it is the list before it (no
\* instance is created, none is changed); a locked instance of the group
\* whose tile the set does not hold is left as it was, and when the set holds
\* the tile of no locked instance of the group it either replaces the
\* feasible set of one unlocked instance it overlaps by the intersection,
\* all others unchanged, or, overlapping none, adds one unlocked instance
\* seeded with the set.
C23_Absorbed ==
  \A k \in 1..Len(entries) :
     GroupsAbsorbed(StateAtGroups(k), EntryGroups(entries[k]))

\* The last entry brought a candidate set that holds the tile of a locked
\* instance of its group and no tile of the other instance of the group,
\* and the rebuild left the list as it was before that entry.
C23_Witness ==
  /\ Len(entries) >= 3
  /\ LET k == Len(entries)
         groups == EntryGroups(entries[k])
     IN /\ Len(groups) = 1
        /\ LockedHits(PassBefore(k), groups[1][1][1], groups[1][1][2],
                      groups[1][2]) # {}
        /\ UnlockedHits(PassBefore(k), groups[1][1][1], groups[1][1][2],
                        groups[1][2]) = {}
        /\ Len(InstancesOf(PassBefore(k), groups[1][1][1], groups[1][1][2])) = 2
        /\ pass[k] = PassBefore(k)
        /\ veins = pass[k]

\* C24: contradiction is unreachable.  Every instance of the vein list the
\* rebuild returns, and of the list after each entry of the pass, has a
\* feasible set with at least one tile: neither incorporateCandidates nor
\* lockVeinAt has emptied or created an instance without tiles.
C24_NeverEmpty ==
  /\ \A j \in 1..Len(veins) : veins[j].feasible # {}
  /\ \A k \in 1..Len(pass) : \A j \in 1..Len(pass[k]) :
       pass[k][j].feasible # {}

\* An entry whose traces of one group have no tile in common came after an
\* instance of that group existed, and an entry has strictly narrowed an
\* instance.
C24_Witness ==
  /\ Len(entries) = 3
  /\ \E k \in 2..3 : \E i \in 1..Len(EntryGroups(entries[k])) :
       LET g == EntryGroups(entries[k])[i]
       IN /\ g[2] = {}
          /\ InstancesOf(PassBefore(k), g[1][1], g[1][2]) # << >>
  /\ \E k \in 2..3 : \E j \in 1..Len(pass[k - 1]) :
       /\ pass[k][j].feasible # pass[k - 1][j].feasible
       /\ pass[k][j].feasible \subseteq pass[k - 1][j].feasible

\* The tiles around a source out to one ring beyond the largest distance.
RingBox(src) ==
  {coordKey(src.x + ox, src.y + oy) :
     ox \in (-(MaxRingDist + 1))..(MaxRingDist + 1),
     oy \in (-(MaxRingDist + 1))..(MaxRingDist + 1)}

\* Tile t is on the ring of Chebyshev distance d around src, on the side
\* the direction vector names: per axis, a positive offset for 1, a negative
\* one for -1, none for 0.
OnRingSide(t, src, d, dir) ==
  LET ox == t[1] - src.x
      oy == t[2] - src.y
      side(o, c) == (c = 1 /\ o > 0) \/ (c = -1 /\ o < 0) \/ (c = 0 /\ o = 0)
  IN /\ (Abs(ox) = d /\ Abs(oy) <= d) \/ (Abs(oy) = d /\ Abs(ox) <= d)
     /\ side(ox, dir.dx)
     /\ side(oy, dir.dy)

\* C26: ring geometry with sign matching.  For a distance d >= 1 and a
\* direction vector with components in {-1,0,1}, the answer of
\* ringCandidates is exactly the set of tiles at Chebyshev distance d from
\* the source whose offset has, on each axis, the sign of the direction
\* component, a zero component requiring a zero offset; a cardinal
\* direction gives the one tile d steps from the source in that direction.
C26_RingGeometry ==
  ringQuery.done =>
    /\ \A t \in ringOut \cup RingBox(ringQuery.src) :
         t \in ringOut <=> OnRingSide(t, ringQuery.src, ringQuery.d, ringQuery.dir)
    /\ (ringQuery.dir.dx = 0) # (ringQuery.dir.dy = 0) =>
         ringOut = {coordKey(ringQuery.src.x + ringQuery.d * ringQuery.dir.dx,
                             ringQuery.src.y + ringQuery.d * ringQuery.dir.dy)}

\* The ring of distance 3 to the west of a source away from the origin has
\* been computed: one tile.
C26_Witness ==
  /\ ringQuery.done
  /\ ringQuery.d = 3
  /\ ringQuery.dir = Dir(-1, 0)
  /\ ringQuery.src = [x |-> 1, y |-> 3]
  /\ ringOut = {coordKey(-2, 3)}

\* C25: lock invariant of the ring-geometry solver.  Every instance of the
\* list rebuildVeinsFromEntries returns is locked exactly when its feasible
\* set has one tile, and then lockedCoord is that tile; this includes an
\* instance created from a single trace in a cardinal direction, whose ring
\* candidate set has one tile.
C25_RingLockInvariant ==
  \A j \in 1..Len(ringVeins) :
     LET v == ringVeins[j]
     IN /\ v.locked <=> Cardinality(v.feasible) = 1
        /\ v.locked => v.feasible = {coordKey(v.lockedCoord.x, v.lockedCoord.y)}

\* The tiles around a source out to one step beyond the largest distance.
WedgeBox(src) ==
  {coordKey(src.x + ox, src.y + oy) :
     ox \in (-(MaxWedgeDist + 1))..(MaxWedgeDist + 1),
     oy \in (-(MaxWedgeDist + 1))..(MaxWedgeDist + 1)}

\* Tile t is in the filled region of distance d from src in direction dir:
\* for a cardinal, 1..d tiles forward and at most d tiles to either side;
\* for a diagonal, strictly inside the quadrant and within d steps counted
\* along the axes.
InWedge(t, src, d, dir) ==
  LET ox == t[1] - src.x
      oy == t[2] - src.y
      forward == ox * dir.dx + oy * dir.dy
      lateral == ox * dir.dy - oy * dir.dx
  IN IF (dir.dx = 0) # (dir.dy = 0)
       THEN forward \in 1..d /\ lateral \in (-d)..d
     ELSE IF dir.dx # 0 /\ dir.dy # 0
       THEN /\ ox * dir.dx > 0
            /\ oy * dir.dy > 0
            /\ Abs(ox) + Abs(oy) <= d
     ELSE FALSE

\* C27: filled-wedge geometry.  For d >= 1, wedgeCandidates returns for a
\* cardinal direction exactly the d*(2d+1) tiles with forward offset 1..d
\* and lateral offset -d..d, and for a diagonal direction exactly the tiles
\* strictly inside that quadrant with |dx|+|dy| <= d; the source tile is
\* never a candidate and every candidate is within Chebyshev distance d of
\* the source.
C27_FilledWedge ==
  (rq.done /\ rq.dir # Dir(0, 0)) =>
    /\ \A t \in rout \cup WedgeBox(rq.src) :
         t \in rout <=> InWedge(t, rq.src, rq.d, rq.dir)
    /\ (rq.dir.dx = 0) # (rq.dir.dy = 0) =>
         Cardinality(rout) = rq.d * (2 * rq.d + 1)
    /\ coordKey(rq.src.x, rq.src.y) \notin rout
    /\ \A t \in rout : /\ Abs(t[1] - rq.src.x) <= rq.d
                       /\ Abs(t[2] - rq.src.y) <= rq.d

\* The wedge of distance 3 to the south of a source away from the origin
\* has been computed: 21 tiles, the far corner among them.
C27_Witness ==
  /\ rq.done
  /\ rq.src = [x |-> -2, y |-> 3]
  /\ rq.d = 3
  /\ rq.dir = Dir(0, -1)
  /\ Cardinality(rout) = 21
  /\ coordKey(-5, 0) \in rout

\* The unit step of a cardinal along each axis.
UnitX(w) == IF w = "east" THEN 1 ELSE IF w = "west" THEN -1 ELSE 0
UnitY(w) == IF w = "north" THEN 1 ELSE IF w = "south" THEN -1 ELSE 0

\* C28: compound direction blending.  For every pair of cardinals A, B the
\* phrase "A of B" resolves to a vector whose components are in {-1,0,1}
\* and are the sums of those of the two unit vectors, cut to -1..1; for
\* perpendicular A and B it is the diagonal between them and "B of A"
\* resolves to the same vector; for opposite A and B the vector is (0,0)
\* and wedgeCandidates returns the empty set for it.
C28_CompoundBlend ==
  (rq.done /\ rq.phrase \in PairPhrases) =>
    LET a == rq.phrase[1]
        b == rq.phrase[3]
        v == parseDirectionPhrase(rq.phrase)
        sumX == UnitX(a) + UnitX(b)
        sumY == UnitY(a) + UnitY(b)
        perpendicular == (UnitX(a) = 0) # (UnitX(b) = 0)
        opposite == sumX = 0 /\ sumY = 0
    IN /\ v.type = "dir"
       /\ v.dx \in {-1, 0, 1} /\ v.dy \in {-1, 0, 1}
       /\ v.dx = (IF sumX > 1 THEN 1 ELSE IF sumX < -1 THEN -1 ELSE sumX)
       /\ v.dy = (IF sumY > 1 THEN 1 ELSE IF sumY < -1 THEN -1 ELSE sumY)
       /\ perpendicular =>
            /\ v.dx = UnitX(a) + UnitX(b) /\ v.dx # 0
            /\ v.dy = UnitY(a) + UnitY(b) /\ v.dy # 0
            /\ parseDirectionPhrase(<<b, "of", a>>) = v
       /\ opposite => (v = Dir(0, 0) /\ rout = {})

\* "east of west" has been resolved for a vague trace: no candidate.
C28_Witness ==
  /\ rq.done
  /\ rq.phrase = <<"east", "of", "west">>
  /\ rq.word = "vague"
  /\ parseDirectionPhrase(rq.phrase) = Dir(0, 0)
  /\ rout = {}

\* The lines of a text from its first start trigger up to, and without,
\* the first end trigger at or after it; no line when there is no start.
SessionWindow(text) ==
  LET starts == {i \in 1..Len(text) : text[i].start}
  IN IF starts = {} THEN << >>
     ELSE LET first == CHOOSE i \in starts : \A j \in starts : i <= j
              ends == {i \in first..Len(text) : text[i].end}
              last == IF ends = {} THEN Len(text)
                      ELSE (CHOOSE i \in ends : \A j \in ends : i <= j) - 1
          IN SubSeq(text, first, last)

\* The observation a line carries, by the first recognizer that matches.
IsMineObs(l) == l.mine # "" /\ oreNormalize(l.mine) # ""
IsQlObs(l) == l.mine = "" /\ l.maxql.num
IsTraceObs(l) ==
  /\ l.mine = "" /\ ~l.maxql.num /\ l.trace
  /\ parseDirectionPhrase(l.phrase).type = "dir"
  /\ parseOreAndAdjFromDescriptor(l.desc).ok

\* The observations of a sequence of lines, all of them counted: the ore of
\* the last mining line, the number of the last quality line, one trace
\* per trace line in the order of the lines.
ObservationsOf(w) ==
  LET mines == SelectSeq(w, IsMineObs)
      qls == SelectSeq(w, IsQlObs)
      trs == SelectSeq(w, IsTraceObs)
  IN [mineOre |-> IF mines = << >> THEN ""
                  ELSE oreNormalize(mines[Len(mines)].mine),
      mineMaxQl |-> IF qls = << >> THEN NaN ELSE qls[Len(qls)].maxql,
      traces |-> [i \in 1..Len(trs) |->
                    [ore |-> parseOreAndAdjFromDescriptor(trs[i].desc).ore,
                     adj |-> parseOreAndAdjFromDescriptor(trs[i].desc).adj,
                     strengthWord |-> extractStrengthWord(trs[i]),
                     dir |-> parseDirectionPhrase(trs[i].phrase)]]]

\* C29: session gating.  parseLogBlock returns no session for a text without
\* a start trigger; otherwise the mining ore, the max quality and the traces
\* it returns are exactly the observations of the lines from the first start
\* trigger up to, and without, the first end trigger that follows: lines
\* before the start and lines from the end trigger on contribute nothing,
\* and a line no recognizer matches does not stop the scan.
C29_SessionGate ==
  rq.done =>
    IF \A i \in 1..Len(rq.text) : ~rq.text[i].start
      THEN rout.parsed = NoSession
      ELSE LET obs == ObservationsOf(SessionWindow(rq.text))
           IN /\ rout.parsed.ok
              /\ rout.parsed.mineOre = obs.mineOre
              /\ rout.parsed.mineMaxQl = obs.mineMaxQl
              /\ rout.parsed.traces = obs.traces

\* A text with the start trigger, a trace, the end trigger and a trace
\* after it: the session holds the first trace only.
C29_Witness ==
  /\ rq.done
  /\ rq.text = <<StartLine, PTraceNorth, EndLine, PTraceEast>>
  /\ rout.parsed.ok
  /\ Len(rout.parsed.traces) = 1
  /\ rout.parsed.traces[1].dir = Dir(0, 1)

\* A trace line whose direction phrase parseDirectionPhrase does not
\* resolve.
BadDirection(l) ==
  /\ l.trace /\ l.mine = "" /\ ~l.maxql.num
  /\ parseDirectionPhrase(l.phrase).type # "dir"

RemoveAt(text, i) == SubSeq(text, 1, i - 1) \o SubSeq(text, i + 1, Len(text))

\* C30: an unrecognized direction drops only that observation.  For a text
\* with a trace line whose direction phrase is not resolvable, the session
\* parsed and the vein list rebuilt are those of the same text with that
\* line removed: the line adds no trace, and the other traces of its group
\* and the other groups of the entry count as they do without it.
C30_BadDirectionDropped ==
  rq.done =>
    \A i \in 1..Len(rq.text) :
       BadDirection(rq.text[i]) =>
         LET without == ParseAndRebuild(RemoveAt(rq.text, i))
         IN /\ rout.parsed = without.parsed
            /\ rout.veins = without.veins

\* A session with a resolvable trace, a trace of the same group without a
\* resolvable direction, and a trace of another group: two traces parsed,
\* one instance each.
C30_Witness ==
  /\ rq.done
  /\ rq.text = <<StartLine, PTraceEast, PTraceUp, PTraceNorth>>
  /\ Len(rout.parsed.traces) = 2
  /\ Len(rout.veins) = 2
  /\ rout.veins[1].feasible = wedgeCandidates(Origin, 6, Dir(1, 0))
  /\ rout.veins[2].feasible = wedgeCandidates(Origin, 10, Dir(0, 1))

\* The lines of a log of the keyed solver that parseLog takes as directional
\* and whose direction text, normalised, DIR_MAP does not hold.
UnknownDirLines(text) ==
  {i \in 1..Len(text) :
     /\ ~text[i].blank
     /\ ~parseExactLine(text[i]).ok
     /\ parseDirectionalLine(text[i]).ok
     /\ normalizeDirText(text[i].dir) \notin DOMAIN keyedDIR_MAP}

\* state.feasible.get(key) as a sequence: empty when the key is absent.
FeasibleOf(st, key) ==
  IF key \in DOMAIN st.feasible THEN << st.feasible[key] >> ELSE << >>

\* C31: in the keyed solver a trace line whose direction text is not in
\* DIR_MAP is no constraint.  For every entry of the list and every such
\* line of it, applying the entry to the state the entries before it leave
\* gives the line's vein key the feasible set that applying the entry
\* without the line gives it, and does not give the key the empty set.
C31_UnknownDirNoConstraint ==
  \A k \in 1..Len(state.entries) :
    LET e == state.entries[k]
        before == rebuildAll(SubSeq(state.entries, 1, k - 1)).state
        applied == applyEntry(before, e)
    IN \A i \in UnknownDirLines(e.text) :
         LET dl == parseDirectionalLine(e.text[i])
             key == veinKey(dl.ore, dl.qbin)
             without == applyEntry(before, [e EXCEPT !.text = RemoveAt(@, i)])
         IN /\ FeasibleOf(applied, key) = FeasibleOf(without, key)
            /\ FeasibleOf(applied, key) # << {} >>

\* The keys of the groups of an entry whose consolidated set is empty.
EmptyGroupKeys(e) ==
  LET groups == EntryGroups(e)
  IN {groups[i][1] : i \in {j \in 1..Len(groups) : groups[j][2] = {}}}

\* An entry without the traces of its groups of an empty consolidated set.
WithoutEmptyGroups(e) ==
  [e EXCEPT !.parsed.traces =
     SelectSeq(@, LAMBDA t : TraceKey(t) \notin EmptyGroupKeys(e))]

\* C32: an empty consolidated set is no constraint.  In the last rebuild
\* pass, every entry leaves the vein list and the id counter that the same
\* entry without the traces of its groups of an empty intersection leaves:
\* such a group has created no instance and changed none, and the instances
\* of its ore and quality that stood before the entry stand unchanged after
\* it unless another part of the entry touched them.
C32_EmptyGroupNoEffect ==
  \A k \in 1..Len(entries) :
    LET e == entries[k]
        s0 == [veins |-> PassBefore(k), nextVeinId |-> NextIdBefore(k)]
    IN /\ ProcessEntry(s0, WithoutEmptyGroups(e))
            = [veins |-> pass[k], nextVeinId |-> NextIdBefore(k + 1)]
       /\ \A key \in EmptyGroupKeys(e) :
            e.parsed.mineOre = "" =>
              InstancesOf(pass[k], key[1], key[2])
                 = InstancesOf(PassBefore(k), key[1], key[2])

\* The last entry holds a group of an east and a west trace with no tile in
\* common, met when an instance of that ore and quality stood in the list,
\* and a second group that has made an instance of its own.
C32_Witness ==
  /\ Len(entries) >= 2
  /\ LET k == Len(entries)
         e == entries[k]
     IN /\ \E key \in EmptyGroupKeys(e) :
             /\ InstancesOf(PassBefore(k), key[1], key[2]) # << >>
             /\ \E i \in 1..Len(e.parsed.traces) :
                  \E j \in 1..Len(e.parsed.traces) :
                    /\ TraceKey(e.parsed.traces[i]) = key
                    /\ TraceKey(e.parsed.traces[j]) = key
                    /\ e.parsed.traces[i].dir = Dir(1, 0)
                    /\ e.parsed.traces[j].dir = Dir(-1, 0)
        /\ Len(pass[k]) = Len(PassBefore(k)) + 1
        /\ veins = pass[k]

\* What C33 asks of one call of incorporateCandidates or lockVeinAt, from
\* the solver state s to the state s1 it returns: one new instance, with
\* the id the counter held, stands at the end of the list and the list
\* before it is as it was; or the list has the length it had and one place
\* m of it was written, keeping its id, ore and quality label, every other
\* place holding the instance it held.
OneInstanceTouched(s, s1) ==
  \/ /\ Len(s1.veins) = Len(s.veins) + 1
     /\ SubSeq(s1.veins, 1, Len(s.veins)) = s.veins
     /\ s1.veins[Len(s1.veins)].id = s.nextVeinId
     /\ s1.nextVeinId = s.nextVeinId + 1
  \/ /\ Len(s1.veins) = Len(s.veins)
     /\ s1.nextVeinId = s.nextVeinId
     /\ \E m \in 1..Len(s.veins) :
          /\ s1.veins[m].id = s.veins[m].id
          /\ s1.veins[m].ore = s.veins[m].ore
          /\ s1.veins[m].qlDisplay = s.veins[m].qlDisplay
          /\ \A j \in 1..Len(s.veins) : j # m => s1.veins[j] = s.veins[j]

\* OneInstanceTouched for each incorporateCandidates of an entry in turn.
RECURSIVE GroupsFramed(_, _)
GroupsFramed(s, groups) ==
  IF groups = << >> THEN TRUE
  ELSE LET key == Head(groups)[1]
           cand == Head(groups)[2]
           s1 == incorporateCandidates(s, key[1], key[2], key[3], cand)
       IN IF cand = {} THEN GroupsFramed(s, Tail(groups))
          ELSE /\ OneInstanceTouched(s, s1)
               /\ GroupsFramed(s1, Tail(groups))

\* C33: the frame of one incorporation.  In the last rebuild pass every
\* call of lockVeinAt and every call of incorporateCandidates has either
\* put one new instance at the end of the vein list or written one
\* instance of it, leaving every other instance and the order of the list
\* as they were; the list after an entry starts with the instances, by id
\* and in order, of the list before it, so the number of instances has not
\* gone down from one entry to the next.
C33_OneTouchFrame ==
  /\ \A k \in 1..Len(entries) :
       LET e == entries[k]
           s0 == [veins |-> PassBefore(k), nextVeinId |-> NextIdBefore(k)]
       IN /\ (e.parsed.mineOre # "" /\ e.parsed.mineMaxQl.num)
               => OneInstanceTouched(s0, StateAtGroups(k))
          /\ GroupsFramed(StateAtGroups(k), EntryGroups(e))
          /\ Len(pass[k]) >= Len(PassBefore(k))
          /\ \A j \in 1..Len(PassBefore(k)) : pass[k][j].id = PassBefore(k)[j].id
  /\ Len(pass) = Len(entries)

\* In one pass a mining entry has added a locked instance behind an
\* instance that stood already, and the entry after it has narrowed one of
\* the two instances and left the other as it was.
C33_Witness ==
  /\ Len(entries) = 3
  /\ \E k \in 2..3 :
       /\ Len(PassBefore(k)) >= 1
       /\ Len(pass[k]) = Len(PassBefore(k)) + 1
       /\ entries[k].parsed.mineOre # ""
       /\ pass[k][Len(pass[k])].locked
  /\ \E k \in 2..3 : \E m \in 1..Len(PassBefore(k)) :
       /\ Len(PassBefore(k)) >= 2
       /\ Len(pass[k]) = Len(PassBefore(k))
       /\ pass[k][m].feasible # PassBefore(k)[m].feasible
       /\ \A j \in 1..Len(PassBefore(k)) : j # m => pass[k][j] = PassBefore(k)[j]

\* Entry k of the list repeats the entry before it: no step, and the same
\* parsed session.
RepeatsPrevious(k) ==
  /\ k >= 2
  /\ entries[k].dx = 0
  /\ entries[k].dy = 0
  /\ entries[k].parsed = entries[k - 1].parsed

\* C34: a duplicate observation is idempotent.  When the add button has
\* appended an entry with a zero step and the parsed session of the entry
\* before it, the vein list drawn is, ids apart, the list drawn before the
\* add; and in every rebuild pass an entry that repeats the one before it
\* leaves the list that entry left, instance for instance, and takes no id:
\* the mining context has locked the instance it locked before, every trace
\* group has met the instance it met before and has not narrowed it.
C34_DuplicateIdempotent ==
  /\ (hist.op \in {"add", "readd"} /\ RepeatsPrevious(Len(entries)))
        => StripIds(veins) = hist.priorVeins
  /\ \A k \in 2..Len(entries) :
       RepeatsPrevious(k) =>
          /\ pass[k] = pass[k - 1]
          /\ NextIdBefore(k + 1) = NextIdBefore(k)

\* The second entry, two tiles off the first, held a mining context, which
\* made a locked instance, and a trace group, which narrowed the instance
\* of the first entry; the add button has then appended the same session
\* with a zero step, and the list drawn is the one drawn before.
C34_Witness ==
  /\ hist.op = "add"
  /\ Len(entries) = 3
  /\ RepeatsPrevious(3)
  /\ entries[2].parsed.mineOre # ""
  /\ entries[2].parsed.mineMaxQl.num
  /\ entries[2].parsed.traces # << >>
  /\ Len(pass[1]) = 1
  /\ Len(pass[2]) = 2
  /\ pass[2][2].locked
  /\ pass[2][1].feasible # pass[1][1].feasible
  /\ pass[2][1].feasible \subseteq pass[1][1].feasible
  /\ StripIds(veins) = hist.priorVeins
  /\ Len(veins) = 2

\* The position before entry i of a list: (0,0) before the first.
PositionBefore(ents, i) ==
  IF i = 1 THEN [x |-> 0, y |-> 0]
  ELSE [x |-> ents[i - 1].x, y |-> ents[i - 1].y]

\* The entries with their step deltas blanked, positions kept.
WithoutDeltas(ents) ==
  [i \in 1..Len(ents) |-> [ents[i] EXCEPT !.dx = 0, !.dy = 0]]

\* C35: step deltas accumulate into absolute positions.  Every stored entry
\* stands at the position of the entry before it ((0,0) before the first)
\* plus its own deltas, whether or not the entry before it holds an
\* observation; and the vein list drawn is the one the rebuild gives for
\* the same entries with the deltas blanked, so the solver has read the
\* stored positions only.
C35_DeltasAccumulate ==
  /\ \A i \in 1..Len(entries) :
       /\ entries[i].x = PositionBefore(entries, i).x + entries[i].dx
       /\ entries[i].y = PositionBefore(entries, i).y + entries[i].dy
  /\ rebuildVeinsFromEntries(WithoutDeltas(entries), NextIdBefore(1)).veins
       = veins

\* The first entry, two tiles off the origin each way, holds no mining
\* context and no trace; the second, stepped by (2,2) again, holds an east
\* trace, and its instance is the wedge seen from (4,4).
C35_Witness ==
  /\ Len(entries) = 2
  /\ entries[1].parsed.mineOre = ""
  /\ entries[1].parsed.traces = << >>
  /\ entries[1].dx = 2 /\ entries[1].dy = 2
  /\ entries[2].dx = 2 /\ entries[2].dy = 2
  /\ entries[2].x = 4 /\ entries[2].y = 4
  /\ Len(entries[2].parsed.traces) = 1
  /\ Len(veins) = 1
  /\ veins[1].feasible
       = wedgeCandidates([x |-> 4, y |-> 4],
                         strengthToDistance(entries[2].parsed.traces[1].strengthWord),
                         Dir(1, 0))

\* C37: the history cursor.  In every state of the history/async variant
\* the cursor points into the history (0 <= historyIndex <= length - 1),
\* the snapshot it points at is equal in value to the current model, and
\* model.entries holds at least one entry; every snapshot holds at least
\* one entry too.
C37_HistoryCursor ==
  /\ 0 <= historyIndex
  /\ historyIndex <= Len(history) - 1
  /\ history[historyIndex + 1] = model
  /\ Len(model) >= 1
  /\ \A i \in 1..Len(history) : Len(history[i]) >= 1

\* After edits and undos the cursor stands inside the history, with a
\* snapshot before it and one behind it that differ from the model; one
\* snapshot is the fresh one-entry model that followed an edited one-entry
\* model (its only entry removed, its field cleared, or a reset).
C37_Witness ==
  /\ Len(history) >= 3
  /\ historyIndex >= 1
  /\ historyIndex < Len(history) - 1
  /\ history[historyIndex + 2] # model
  /\ history[historyIndex] # model
  /\ \E i \in 2..Len(history) :
       /\ history[i] = FreshModel
       /\ history[i - 1] # FreshModel
       /\ Len(history[i - 1]) = 1

\* restoreHistory(idx) as a function of model, history and the cursor: the
\* model and the cursor it leaves.
RestoredTo(m, h, hi, idx) ==
  IF idx < 0 \/ idx >= Len(h) THEN [model |-> m, historyIndex |-> hi]
  ELSE [model |-> h[idx + 1], historyIndex |-> idx]

\* A handler that edits the model: a field typed into, an entry removed or
\* added, a reset.
EditStep ==
  \/ \E i \in 1..MaxAsyncEntries, c \in AsyncInputs : onChange(i, c[1], c[2])
  \/ \E i \in 1..MaxAsyncEntries : removeBtn(i)
  \/ btnAdd
  \/ btnReset

\* C36: the undo/redo round trip of the history/async variant.  An undo
\* and a redo leave the history as it is and move model and cursor as
\* restoreHistory(historyIndex - 1) and restoreHistory(historyIndex + 1)
\* do; after an undo that moved the cursor, a redo restores the model and
\* the cursor the undo started from; an undo at the oldest snapshot and a
\* redo at the newest change nothing; and an edit leaves the history cut to
\* the snapshots up to the cursor it started from plus the new model, the
\* cursor on the last of them, so that a redo after it changes nothing.
C36_UndoRedoRoundTrip ==
  [][ /\ btnUndo =>
           /\ history' = history
           /\ [model |-> model', historyIndex |-> historyIndex']
                = RestoredTo(model, history, historyIndex, historyIndex - 1)
           /\ historyIndex >= 1 =>
                RestoredTo(model', history', historyIndex', historyIndex' + 1)
                  = [model |-> model, historyIndex |-> historyIndex]
           /\ historyIndex = 0 => UNCHANGED asyncVars
      /\ btnRedo =>
           /\ history' = history
           /\ [model |-> model', historyIndex |-> historyIndex']
                = RestoredTo(model, history, historyIndex, historyIndex + 1)
           /\ historyIndex < Len(history) - 1 =>
                RestoredTo(model', history', historyIndex', historyIndex' - 1)
                  = [model |-> model, historyIndex |-> historyIndex]
           /\ historyIndex = Len(history) - 1 => UNCHANGED asyncVars
      /\ EditStep =>
           /\ history' = Append(SubSeq(history, 1, historyIndex + 1), model')
           /\ historyIndex' = Len(history') - 1
           /\ RestoredTo(model', history', historyIndex', historyIndex' + 1)
                = [model |-> model', historyIndex |-> historyIndex']
    ]_vars

\* A recompute was waiting for a fetch when an undo replaced the model, and
\* an edit followed: the array the suspended recompute still iterates, the
\* model the undo started from, is no snapshot of the history any more; the
\* cursor stands on the last snapshot, a redo would change nothing and an
\* undo would bring back the snapshot before it.
C36_Witness ==
  /\ Len(history) >= 2
  /\ historyIndex = Len(history) - 1
  /\ \E k \in 1..Len(pending) :
       /\ ~pending[k].live
       /\ \A i \in 1..Len(history) : history[i] # pending[k].arr
  /\ history[historyIndex] # model
  /\ RestoredTo(model, history, historyIndex, historyIndex + 1)
       = [model |-> model, historyIndex |-> historyIndex]
  /\ RestoredTo(model, history, historyIndex, historyIndex - 1)
       = [model |-> history[historyIndex], historyIndex |-> historyIndex - 1]

\* The state of the keyed solver after the first k entries of a replay.
KeyedAfter(k) == rebuildAll(SubSeq(state.entries, 1, k)).state

\* No key is both locked and feasible, and no stored feasible set has
\* exactly one tile.
KeyedPartition(st) ==
  /\ DOMAIN st.locked \cap DOMAIN st.feasible = {}
  /\ \A key \in DOMAIN st.feasible : Cardinality(st.feasible[key]) # 1

\* C38: the partition of the keyed solver's state.  The state rebuildAll
\* leaves, and the state after every entry of the replay, holds no key in
\* both state.locked and state.feasible and no feasible set of exactly one
\* tile; a key locked after entry k (or by the exact lines of entry k + 1)
\* is locked, and absent from state.feasible, after every later entry.
C38_KeyedPartition ==
  /\ state.locked = KeyedAfter(Len(state.entries)).locked
  /\ state.feasible = KeyedAfter(Len(state.entries)).feasible
  /\ KeyedPartition(state)
  /\ \A k \in 0..Len(state.entries) :
       /\ KeyedPartition(KeyedAfter(k))
       /\ \A j \in k..Len(state.entries) :
            \A key \in DOMAIN KeyedAfter(k).locked :
               /\ key \in DOMAIN KeyedAfter(j).locked
               /\ key \notin DOMAIN KeyedAfter(j).feasible
       /\ k < Len(state.entries) =>
            LET e == state.entries[k + 1]
                s1 == ExactLocks(KeyedAfter(k), parseLog(e.text).exact,
                                 <<e.x, e.y>>, FALSE)
            IN /\ KeyedPartition(s1)
               /\ \A key \in DOMAIN s1.locked :
                    /\ key \in DOMAIN KeyedAfter(k + 1).locked
                    /\ key \notin DOMAIN KeyedAfter(k + 1).feasible

\* A key stood in state.feasible with two tiles after the first entry, the
\* second entry narrowed it to one tile and locked it, and the third entry
\* holds a directional line of that key: the key is locked at that tile and
\* is not in state.feasible.
C38_Witness ==
  /\ Len(state.entries) = 3
  /\ \E key \in DOMAIN KeyedAfter(1).feasible :
       /\ Cardinality(KeyedAfter(1).feasible[key]) = 2
       /\ key \in DOMAIN KeyedAfter(2).locked
       /\ KeyedAfter(2).locked[key] \in KeyedAfter(1).feasible[key]
       /\ LET parsed == parseLog(state.entries[3].text)
          IN \E i \in 1..Len(parsed.directional) :
               veinKey(parsed.directional[i].ore, parsed.directional[i].qbin) = key
       /\ state.locked[key] = KeyedAfter(2).locked[key]
       /\ key \notin DOMAIN state.feasible

=============================================================================
